---------------------------- MODULE Spec2Model ----------------------------
(* CertNode Rust SDK: receipt verification (sdk/rust/src/lib.rs), JSON      *)
(* canonicalization (sdk/rust/src/utils.rs) and the JWKS cache               *)
(* (sdk/rust/src/jwks.rs).                                                   *)
(*                                                                           *)
(* Representation.  A string or byte string is a sequence of naturals.       *)
(*   0..127      ASCII characters                                            *)
(*   200..219    one symbol standing for a block of 32 bytes (a coordinate)  *)
(*   220..239    one symbol standing for a block of 64 bytes (a signature)   *)
(*   250         the mark that starts a SHA-256 digest                       *)
(*   >= 1000     characters of the base64url alphabet                        *)
(* Option<T> is a sequence of length at most one: <<>> is None, <<v>> is     *)
(* Some(v).                                                                  *)
EXTENDS Integers, Sequences, FiniteSets, TLC

None == <<>>
Some(v) == <<v>>
IsSome(o) == Len(o) = 1
Unwrap(o) == o[1]

-----------------------------------------------------------------------------
(* Strings *)

RECURSIVE LexLess(_, _)
\* Ord for String: byte-wise lexicographic order (the order of BTreeMap<&String, _>)
LexLess(a, b) ==
    IF Len(b) = 0 THEN FALSE
    ELSE IF Len(a) = 0 THEN TRUE
    ELSE IF a[1] # b[1] THEN a[1] < b[1]
    ELSE LexLess(Tail(a), Tail(b))

RECURSIVE Join(_, _)
\* [String]::join(sep)
Join(parts, sep) ==
    IF Len(parts) = 0 THEN <<>>
    ELSE IF Len(parts) = 1 THEN parts[1]
    ELSE parts[1] \o sep \o Join(Tail(parts), sep)

\* Number of bytes a byte string stands for
RECURSIVE ByteLen(_)
ByteLen(bytes) ==
    IF Len(bytes) = 0 THEN 0
    ELSE (IF bytes[1] \in 200..219 THEN 32
          ELSE IF bytes[1] \in 220..239 THEN 64
          ELSE 1) + ByteLen(Tail(bytes))

-----------------------------------------------------------------------------
(* base64url without padding, and SHA-256 *)

\* URL_SAFE_NO_PAD.encode: every byte symbol is carried into the base64url alphabet
B64Encode(bytes) == [i \in 1..Len(bytes) |-> bytes[i] + 1000]

\* URL_SAFE_NO_PAD.decode: fails on any character outside the alphabet
\* (a padding '=' included), otherwise inverts the encoding
B64Decode(text) ==
    IF \A i \in 1..Len(text) : text[i] >= 1000
    THEN [ok |-> TRUE, bytes |-> [i \in 1..Len(text) |-> text[i] - 1000]]
    ELSE [ok |-> FALSE, bytes |-> <<>>]

\* Sha256::digest: a collision-free digest, the mark followed by the message
Sha256(message) == <<250>> \o message

-----------------------------------------------------------------------------
(* serde_json::Value *)

JNull == [t |-> "null"]
JBool(b) == [t |-> "bool", b |-> b]
JInt(n) == [t |-> "num", repr |-> "i64", n |-> n]
\* Number holding an f64: (-1)^neg * digits * 10^exp, digits being the shortest
\* decimal significand that reads back as the same f64 (0 for zero)
JFloat(neg, digits, exp) ==
    [t |-> "num", repr |-> "f64", neg |-> neg, digits |-> digits, exp |-> exp]
JStr(s) == [t |-> "str", s |-> s]
JArr(items) == [t |-> "arr", items |-> items]
\* members: a sequence of <<key, value>> pairs with distinct keys, in the
\* order the map iterates them
JObj(members) == [t |-> "obj", members |-> members]

\* Result<String>
OkStr(s) == [ok |-> TRUE, s |-> s, err |-> ""]
ErrStr(e) == [ok |-> FALSE, s |-> <<>>, err |-> e]

RECURSIVE Digits(_)
\* u64::to_string of a natural
Digits(n) == IF n < 10 THEN <<48 + n>> ELSE Digits(n \div 10) \o <<48 + (n % 10)>>

\* i64::to_string
IntToString(n) == IF n < 0 THEN <<45>> \o Digits(-n) ELSE Digits(n)

\* Number::to_string of an f64 (ryu): digits with ".0" when the value is
\* integral and has at most 16 digits, a decimal point inside or after "0."
\* for up to 5 leading zeros, else scientific notation
F64ToString(f) ==
    LET ds == Digits(f.digits)
        length == Len(ds)
        kk == length + f.exp
        zeros(n) == [i \in 1..n |-> 48]
        sign == IF f.neg THEN <<45>> ELSE <<>>
    IN  sign \o
        (IF f.digits = 0 THEN <<48, 46, 48>>
         ELSE IF 0 <= f.exp /\ kk <= 16 THEN ds \o zeros(f.exp) \o <<46, 48>>
         ELSE IF 0 < kk /\ kk <= 16
         THEN SubSeq(ds, 1, kk) \o <<46>> \o SubSeq(ds, kk + 1, length)
         ELSE IF -5 < kk /\ kk <= 0 THEN <<48, 46>> \o zeros(-kk) \o ds
         ELSE IF length = 1 THEN ds \o <<101>> \o IntToString(kk - 1)
         ELSE <<ds[1], 46>> \o SubSeq(ds, 2, length) \o <<101>> \o IntToString(kk - 1))

\* the escape as it would read leaving a backslash as it is
EscapeChar_KeepBackslash(c) == IF c = 34 THEN <<92, 34>> ELSE <<c>>

\* serde_json's escape of one character inside a string
EscapeChar(c) ==
    IF c = 34 THEN <<92, 34>>
    ELSE IF c = 92 THEN <<92, 92>>
    ELSE IF c = 10 THEN <<92, 110>>
    ELSE IF c = 13 THEN <<92, 114>>
    ELSE IF c = 9 THEN <<92, 116>>
    ELSE IF c = 8 THEN <<92, 98>>
    ELSE IF c = 12 THEN <<92, 102>>
    ELSE IF c < 32
    THEN LET hex(d) == IF d < 10 THEN 48 + d ELSE 87 + d
         IN  <<92, 117, 48, 48, hex(c \div 16), hex(c % 16)>>
    ELSE <<c>>

RECURSIVE EscapeAll(_)
EscapeAll(s) == IF Len(s) = 0 THEN <<>> ELSE EscapeChar(s[1]) \o EscapeAll(Tail(s))

\* serde_json::to_string(&str): the escaped string in double quotes
JsonString(s) == <<34>> \o EscapeAll(s) \o <<34>>

\* the members as they would be iterated by a map that keeps insertion order
SortMembers_Keep(members) == members

RECURSIVE SortMembers(_)
\* BTreeMap::insert of every member, then iteration: members by ascending key
SortMembers(members) ==
    IF Len(members) = 0 THEN <<>>
    ELSE LET m == CHOOSE i \in 1..Len(members) :
                      \A j \in 1..Len(members) :
                          j # i => LexLess(members[i][1], members[j][1])
             rest == SelectSeq([j \in 1..Len(members) |->
                                   IF j = m THEN <<>> ELSE members[j]],
                               LAMBDA p : p # <<>>)
         IN  <<members[m]>> \o SortMembers(rest)

RECURSIVE StringifyCanonical(_)
RECURSIVE StringifyItems(_)
RECURSIVE StringifyParts(_)
RECURSIVE StringifyParts_KeepNull(_)
RECURSIVE StringifyItems_SkipNull(_)

\* the loop over the sorted members as it would read without the test of is_null
StringifyParts_KeepNull(sorted) ==
    IF Len(sorted) = 0 THEN [ok |-> TRUE, parts |-> <<>>, err |-> ""]
    ELSE LET h == StringifyCanonical(sorted[1][2])
         IN  IF ~h.ok THEN [ok |-> FALSE, parts |-> <<>>, err |-> h.err]
             ELSE LET r == StringifyParts_KeepNull(Tail(sorted))
                  IN  IF ~r.ok THEN r
                      ELSE [ok |-> TRUE,
                            parts |-> <<JsonString(sorted[1][1]) \o <<58>> \o h.s>>
                                          \o r.parts,
                            err |-> ""]

\* the loop over an array as it would read leaving out null items
StringifyItems_SkipNull(items) ==
    IF Len(items) = 0 THEN [ok |-> TRUE, parts |-> <<>>, err |-> ""]
    ELSE IF items[1].t = "null" THEN StringifyItems_SkipNull(Tail(items))
    ELSE LET h == StringifyCanonical(items[1])
         IN  IF ~h.ok THEN [ok |-> FALSE, parts |-> <<>>, err |-> h.err]
             ELSE LET r == StringifyItems_SkipNull(Tail(items))
                  IN  IF ~r.ok THEN r
                      ELSE [ok |-> TRUE, parts |-> <<h.s>> \o r.parts, err |-> ""]

\* the loop over an array: the first error ends it
StringifyItems(items) ==
    IF Len(items) = 0 THEN [ok |-> TRUE, parts |-> <<>>, err |-> ""]
    ELSE LET h == StringifyCanonical(items[1])
         IN  IF ~h.ok THEN [ok |-> FALSE, parts |-> <<>>, err |-> h.err]
             ELSE LET r == StringifyItems(Tail(items))
                  IN  IF ~r.ok THEN r
                      ELSE [ok |-> TRUE, parts |-> <<h.s>> \o r.parts, err |-> ""]

\* the loop over the sorted members: null-valued members are skipped
StringifyParts(sorted) ==
    IF Len(sorted) = 0 THEN [ok |-> TRUE, parts |-> <<>>, err |-> ""]
    ELSE IF sorted[1][2].t = "null" THEN StringifyParts(Tail(sorted))
    ELSE LET h == StringifyCanonical(sorted[1][2])
         IN  IF ~h.ok THEN [ok |-> FALSE, parts |-> <<>>, err |-> h.err]
             ELSE LET r == StringifyParts(Tail(sorted))
                  IN  IF ~r.ok THEN r
                      ELSE [ok |-> TRUE,
                            parts |-> <<JsonString(sorted[1][1]) \o <<58>> \o h.s>>
                                          \o r.parts,
                            err |-> ""]

StringifyCanonical(value) ==
    CASE value.t = "null" -> OkStr(<<110, 117, 108, 108>>)
      [] value.t = "bool" ->
            OkStr(IF value.b THEN <<116, 114, 117, 101>>
                  ELSE <<102, 97, 108, 115, 101>>)
      [] value.t = "num" ->
            IF value.repr = "i64" THEN OkStr(IntToString(value.n))
            ELSE IF value.repr = "u64" THEN OkStr(Digits(value.n))
            ELSE IF value.repr = "f64" THEN OkStr(F64ToString(value))
            ELSE ErrStr("InvalidFormat")
      [] value.t = "str" -> OkStr(JsonString(value.s))
      [] value.t = "arr" ->
            LET r == StringifyItems(value.items)
            IN  IF ~r.ok THEN ErrStr(r.err)
                ELSE OkStr(<<91>> \o Join(r.parts, <<44>>) \o <<93>>)
      [] value.t = "obj" ->
            LET r == StringifyParts(SortMembers(value.members))
            IN  IF ~r.ok THEN ErrStr(r.err)
                ELSE OkStr(<<123>> \o Join(r.parts, <<44>>) \o <<125>>)

\* canonicalize_json: the canonical string as bytes
CanonicalizeJson(value) == StringifyCanonical(value)

\* serde_json::from_str::<Value> on text without whitespace: Ok(value) when
\* the whole text is one JSON value. An integer literal gives an integer
\* Number, a literal with a fraction or an exponent an f64; the members of an
\* object are kept one per key, the last one read
ParseJson(s) ==
    LET n == Len(s)
        bad == [ok |-> FALSE, v |-> JNull, next |-> 0]
        good(v, next) == [ok |-> TRUE, v |-> v, next |-> next]
        at(i) == IF i <= n THEN s[i] ELSE 0
        isDigit(c) == c \in 48..57
        word(i, w) == i + Len(w) - 1 <= n /\ SubSeq(s, i, i + Len(w) - 1) = w
        \* first position from i on that holds no digit
        digitsEnd(i) == CHOOSE j \in i..(n + 1) :
                            /\ \A k \in i..(j - 1) : isDigit(s[k])
                            /\ ~isDigit(at(j))
        RECURSIVE toNat(_)
        toNat(ds) == IF Len(ds) = 0 THEN 0
                     ELSE 10 * toNat(SubSeq(ds, 1, Len(ds) - 1)) + (ds[Len(ds)] - 48)
        RECURSIVE shortest(_, _, _)
        \* the f64 read from significand d and exponent e
        shortest(neg, d, e) ==
            IF d = 0 THEN JFloat(neg, 0, 0)
            ELSE IF d % 10 = 0 THEN shortest(neg, d \div 10, e + 1)
            ELSE JFloat(neg, d, e)
        hex(c) == IF c \in 48..57 THEN c - 48
                  ELSE IF c \in 97..102 THEN c - 87
                  ELSE IF c \in 65..70 THEN c - 55 ELSE -1
        number(i) ==
            LET neg == at(i) = 45
                i0 == IF neg THEN i + 1 ELSE i
                i1 == digitsEnd(i0)
                frac == at(i1) = 46
                f1 == IF frac THEN digitsEnd(i1 + 1) ELSE i1
                expo == at(f1) \in {101, 69}
                eneg == at(f1 + 1) = 45
                e0 == IF at(f1 + 1) \in {43, 45} THEN f1 + 2 ELSE f1 + 1
                e1 == IF expo THEN digitsEnd(e0) ELSE f1
                int == SubSeq(s, i0, i1 - 1)
                fr == IF frac THEN SubSeq(s, i1 + 1, f1 - 1) ELSE <<>>
                ex == IF expo THEN toNat(SubSeq(s, e0, e1 - 1)) ELSE 0
            IN  IF \/ i1 = i0
                   \/ (i1 - i0 > 1 /\ s[i0] = 48)
                   \/ (frac /\ f1 = i1 + 1)
                   \/ (expo /\ e1 = e0)
                THEN bad
                ELSE IF ~frac /\ ~expo /\ ~(neg /\ toNat(int) = 0)
                THEN good(JInt(IF neg THEN -toNat(int) ELSE toNat(int)), e1)
                ELSE good(shortest(neg, toNat(int \o fr),
                                   (IF eneg THEN -ex ELSE ex) - Len(fr)), e1)
        RECURSIVE string(_, _)
        \* the characters of a string literal from position i to its closing quote
        string(i, acc) ==
            IF i > n \/ s[i] < 32 THEN bad
            ELSE IF s[i] = 34 THEN good(acc, i + 1)
            ELSE IF s[i] # 92 THEN string(i + 1, Append(acc, s[i]))
            ELSE LET c == at(i + 1)
                 IN  IF c \in {34, 92, 47} THEN string(i + 2, Append(acc, c))
                     ELSE IF c = 98 THEN string(i + 2, Append(acc, 8))
                     ELSE IF c = 102 THEN string(i + 2, Append(acc, 12))
                     ELSE IF c = 110 THEN string(i + 2, Append(acc, 10))
                     ELSE IF c = 114 THEN string(i + 2, Append(acc, 13))
                     ELSE IF c = 116 THEN string(i + 2, Append(acc, 9))
                     ELSE IF /\ c = 117
                             /\ i + 5 <= n
                             /\ \A k \in (i + 2)..(i + 5) : hex(s[k]) >= 0
                     THEN string(i + 6,
                                 Append(acc, 4096 * hex(s[i + 2]) + 256 * hex(s[i + 3])
                                             + 16 * hex(s[i + 4]) + hex(s[i + 5])))
                     ELSE bad
        put(members, k, v) ==
            SelectSeq(members, LAMBDA m : m[1] # k) \o << <<k, v>> >>
        RECURSIVE value(_)
        RECURSIVE items(_, _)
        RECURSIVE members(_, _)
        value(i) ==
            IF word(i, <<110, 117, 108, 108>>) THEN good(JNull, i + 4)
            ELSE IF word(i, <<116, 114, 117, 101>>) THEN good(JBool(TRUE), i + 4)
            ELSE IF word(i, <<102, 97, 108, 115, 101>>) THEN good(JBool(FALSE), i + 5)
            ELSE IF at(i) = 34
            THEN LET r == string(i + 1, <<>>)
                 IN  IF r.ok THEN good(JStr(r.v), r.next) ELSE bad
            ELSE IF at(i) = 91
            THEN IF at(i + 1) = 93 THEN good(JArr(<<>>), i + 2) ELSE items(i + 1, <<>>)
            ELSE IF at(i) = 123
            THEN IF at(i + 1) = 125 THEN good(JObj(<<>>), i + 2)
                 ELSE members(i + 1, <<>>)
            ELSE IF at(i) = 45 \/ isDigit(at(i)) THEN number(i)
            ELSE bad
        items(i, acc) ==
            LET r == value(i)
            IN  IF ~r.ok THEN bad
                ELSE IF at(r.next) = 44 THEN items(r.next + 1, Append(acc, r.v))
                ELSE IF at(r.next) = 93 THEN good(JArr(Append(acc, r.v)), r.next + 1)
                ELSE bad
        members(i, acc) ==
            LET k == IF at(i) = 34 THEN string(i + 1, <<>>) ELSE bad
                r == IF k.ok /\ at(k.next) = 58 THEN value(k.next + 1) ELSE bad
            IN  IF ~r.ok THEN bad
                ELSE IF at(r.next) = 44 THEN members(r.next + 1, put(acc, k.v, r.v))
                ELSE IF at(r.next) = 125
                THEN good(JObj(put(acc, k.v, r.v)), r.next + 1)
                ELSE bad
        top == value(1)
    IN  IF top.ok /\ top.next = n + 1 THEN [ok |-> TRUE, v |-> top.v]
        ELSE [ok |-> FALSE, v |-> JNull]

-----------------------------------------------------------------------------
(* Names *)

ES256 == <<69, 83, 50, 53, 54>>
EdDSA == <<69, 100, 68, 83, 65>>
RS256 == <<82, 83, 50, 53, 54>>
P256 == <<80, 45, 50, 53, 54>>
P384 == <<80, 45, 51, 56, 52>>
Ed25519 == <<69, 100, 50, 53, 53, 49, 57>>
Ed448 == <<69, 100, 52, 52, 56>>
KtyEC == <<69, 67>>
KtyOKP == <<79, 75, 80>>
AlgName == <<97, 108, 103>>
KidName == <<107, 105, 100>>
TypName == <<116, 121, 112>>
Kid1 == <<107, 49>>
Kid2 == <<107, 50>>

-----------------------------------------------------------------------------
(* Jwk: a tagged union of Ec {kty, crv, x, y, kid, alg} and Okp {kty, crv, x, kid, alg} *)

JwkEc(crv, x, y, kid, alg) ==
    [variant |-> "Ec", kty |-> KtyEC, crv |-> crv, x |-> x, y |-> y,
     kid |-> kid, alg |-> alg]

JwkOkp(crv, x, kid, alg) ==
    [variant |-> "Okp", kty |-> KtyOKP, crv |-> crv, x |-> x,
     kid |-> kid, alg |-> alg]

\* serde_json::to_string of a BTreeMap<&str, &str>: members by ascending name
MapToJson(pairs) ==
    <<123>>
    \o Join([i \in 1..Len(pairs) |->
                JsonString(pairs[i][1]) \o <<58>> \o JsonString(pairs[i][2])],
            <<44>>)
    \o <<125>>

\* jwk_thumbprint as it would read with the y member left out of the EC mapping
JwkThumbprint_NoY(jwk) ==
    IF jwk.variant = "Ec" /\ jwk.crv = P256
    THEN [ok |-> TRUE, err |-> "",
          s |-> B64Encode(Sha256(MapToJson(<< <<<<99, 114, 118>>, jwk.crv>>,
                                              <<<<107, 116, 121>>, KtyEC>>,
                                              <<<<120>>, jwk.x>> >>)))]
    ELSE IF jwk.variant = "Okp" /\ jwk.crv = Ed25519
    THEN [ok |-> TRUE, err |-> "",
          s |-> B64Encode(Sha256(MapToJson(<< <<<<99, 114, 118>>, jwk.crv>>,
                                              <<<<107, 116, 121>>, KtyOKP>>,
                                              <<<<120>>, jwk.x>> >>)))]
    ELSE [ok |-> FALSE, err |-> "UnsupportedKey", s |-> <<>>]

\* jwk_thumbprint as it would read without the guards on crv
JwkThumbprint_AnyCurve(jwk) ==
    IF jwk.variant = "Ec"
    THEN [ok |-> TRUE, err |-> "",
          s |-> B64Encode(Sha256(MapToJson(<< <<<<99, 114, 118>>, jwk.crv>>,
                                              <<<<107, 116, 121>>, KtyEC>>,
                                              <<<<120>>, jwk.x>>,
                                              <<<<121>>, jwk.y>> >>)))]
    ELSE [ok |-> TRUE, err |-> "",
          s |-> B64Encode(Sha256(MapToJson(<< <<<<99, 114, 118>>, jwk.crv>>,
                                              <<<<107, 116, 121>>, KtyOKP>>,
                                              <<<<120>>, jwk.x>> >>)))]

\* jwk_thumbprint (RFC 7638)
JwkThumbprint(jwk) ==
    IF jwk.variant = "Ec" /\ jwk.crv = P256
    THEN [ok |-> TRUE, err |-> "",
          s |-> B64Encode(Sha256(MapToJson(<< <<<<99, 114, 118>>, jwk.crv>>,
                                              <<<<107, 116, 121>>, KtyEC>>,
                                              <<<<120>>, jwk.x>>,
                                              <<<<121>>, jwk.y>> >>)))]
    ELSE IF jwk.variant = "Okp" /\ jwk.crv = Ed25519
    THEN [ok |-> TRUE, err |-> "",
          s |-> B64Encode(Sha256(MapToJson(<< <<<<99, 114, 118>>, jwk.crv>>,
                                              <<<<107, 116, 121>>, KtyOKP>>,
                                              <<<<120>>, jwk.x>> >>)))]
    ELSE [ok |-> FALSE, err |-> "UnsupportedKey", s |-> <<>>]

\* one turn of the loop of find_key_in_jwks: does this key answer to kid
KeyMatches(key, kid) ==
    \/ (JwkThumbprint(key).ok /\ JwkThumbprint(key).s = kid)
    \/ (IsSome(key.kid) /\ Unwrap(key.kid) = kid)

RECURSIVE FindFrom(_, _, _)
\* the loop of find_key_in_jwks from index i on: Some(index) of the first match
FindFrom(kid, keys, i) ==
    IF i > Len(keys) THEN None
    ELSE IF KeyMatches(keys[i], kid) THEN Some(i)
    ELSE FindFrom(kid, keys, i + 1)

\* find_key_in_jwks as it would read scanning the key set from its end
FindKeyInJwks_Last(kid, keys) ==
    LET hits == {i \in 1..Len(keys) : KeyMatches(keys[i], kid)}
    IN  IF hits = {} THEN None
        ELSE Some(keys[CHOOSE i \in hits : \A j \in hits : j <= i])

\* find_key_in_jwks as it would read with a thumbprint pass over the whole key
\* set before a kid pass
FindKeyInJwks_TwoPass(kid, keys) ==
    LET byThumb == {i \in 1..Len(keys) :
                        JwkThumbprint(keys[i]).ok /\ JwkThumbprint(keys[i]).s = kid}
        byKid == {i \in 1..Len(keys) : IsSome(keys[i].kid) /\ Unwrap(keys[i].kid) = kid}
    IN  IF byThumb # {} THEN Some(keys[CHOOSE i \in byThumb : \A j \in byThumb : i <= j])
        ELSE IF byKid # {} THEN Some(keys[CHOOSE i \in byKid : \A j \in byKid : i <= j])
        ELSE None

\* find_key_in_jwks as it would read falling back on the first key of the set
FindKeyInJwks_Fallback(kid, keys) ==
    LET found == FindFrom(kid, keys, 1)
    IN  IF IsSome(found) THEN Some(keys[Unwrap(found)])
        ELSE IF Len(keys) > 0 THEN Some(keys[1]) ELSE None

RECURSIVE FindVisits(_, _, _)
\* the indices of the keys the loop of find_key_in_jwks examines, in order
FindVisits(kid, keys, i) ==
    IF i > Len(keys) THEN <<>>
    ELSE IF KeyMatches(keys[i], kid) THEN <<i>>
    ELSE <<i>> \o FindVisits(kid, keys, i + 1)

\* find_key_in_jwks: Option<&Jwk> (the function never returns Err)
FindKeyInJwks(kid, keys) ==
    LET found == FindFrom(kid, keys, 1)
    IN  IF IsSome(found) THEN Some(keys[Unwrap(found)]) ELSE None

-----------------------------------------------------------------------------
(* The protected header *)

\* the header as an issuer serializes it
HeaderJson(alg, kid) ==
    <<123>> \o JsonString(AlgName) \o <<58>> \o JsonString(alg) \o <<44>>
            \o JsonString(KidName) \o <<58>> \o JsonString(kid) \o <<125>>

\* the same header with one more member, which Header does not declare
HeaderJsonTyp(alg, kid) ==
    <<123>> \o JsonString(AlgName) \o <<58>> \o JsonString(alg) \o <<44>>
            \o JsonString(KidName) \o <<58>> \o JsonString(kid) \o <<44>>
            \o JsonString(TypName) \o <<58>> \o JsonString(<<74>>) \o <<125>>

\* a header object without its kid member
HeaderJsonNoKid(alg) ==
    <<123>> \o JsonString(AlgName) \o <<58>> \o JsonString(alg) \o <<125>>

\* the pieces of s between occurrences of character c
SplitOn(s, c) ==
    LET pieces[t \in Seq(Nat)] ==
            IF \A i \in 1..Len(t) : t[i] # c THEN <<t>>
            ELSE LET k == CHOOSE i \in 1..Len(t) :
                              t[i] = c /\ \A j \in 1..(i - 1) : t[j] # c
                 IN  <<SubSeq(t, 1, k - 1)>> \o pieces[SubSeq(t, k + 1, Len(t))]
    IN  pieces[s]

\* a JSON string literal without escapes: Some(content), else None
Unquote(lit) ==
    IF /\ Len(lit) >= 2
       /\ lit[1] = 34
       /\ lit[Len(lit)] = 34
       /\ \A i \in 2..(Len(lit) - 1) : lit[i] \notin {34, 92}
    THEN Some(SubSeq(lit, 2, Len(lit) - 1))
    ELSE None

\* serde_json::from_slice::<Header> on a flat object of string members:
\* alg and kid are required strings, other members are ignored
ParseHeader(bytes) ==
    LET bad == [ok |-> FALSE, alg |-> <<>>, kid |-> <<>>] IN
    IF Len(bytes) < 2 \/ bytes[1] # 123 \/ bytes[Len(bytes)] # 125 THEN bad
    ELSE
      LET parts == SplitOn(SubSeq(bytes, 2, Len(bytes) - 1), 44)
          member(p) == LET kv == SplitOn(p, 58)
                       IN  IF Len(kv) # 2 THEN <<None, None>>
                           ELSE <<Unquote(kv[1]), Unquote(kv[2])>>
          members == [i \in 1..Len(parts) |-> member(parts[i])]
          at(name) == {i \in 1..Len(members) : members[i][1] = Some(name)}
      IN  IF \E i \in 1..Len(members) : members[i][1] = None THEN bad
          ELSE IF Cardinality(at(AlgName)) # 1 \/ Cardinality(at(KidName)) # 1
          THEN bad
          ELSE LET a == members[CHOOSE i \in at(AlgName) : TRUE][2]
                   k == members[CHOOSE i \in at(KidName) : TRUE][2]
               IN  IF a = None \/ k = None THEN bad
                   ELSE [ok |-> TRUE, alg |-> Unwrap(a), kid |-> Unwrap(k)]

-----------------------------------------------------------------------------
(* State *)

VARIABLES
    issued,          \* what the issuer signed: [alg, pub, msg]
    genuine,         \* the receipt as the issuer built it
    jwks,            \* Jwks.keys handed to verify_receipt
    receipt,         \* the Receipt handed to verify_receipt
    pc,              \* position of the call inside verify_receipt
    header,          \* let header: Header
    key,             \* let key: Option<&Jwk>
    payload_b64u,    \* let payload_b64u
    signing_input,   \* let signing_input
    signature_bytes, \* let signature_bytes
    is_valid,        \* let is_valid
    outcome,         \* what the call returned: Ok(VerifyResult) or Err(CertNodeError)
    steps,           \* the steps of the pipeline the call has run, in order
    adapter_calls,   \* the messages the call has passed to a signature adapter
    prev,            \* the previous call on this key set: its receipt and outcome
    tampers,         \* how many times the receipt was altered after issuance
    other,           \* a second call on the same key set, while it is not running
    ttl,             \* JwksManager.ttl
    cache,           \* JwksManager.cache: None or Some(CachedJwks {jwks, cached_at})
    lock,            \* the RwLock around the cache: its writer and its readers
    now,             \* the monotonic clock read by Instant::now() and elapsed()
    calls,           \* the calls on the manager, one per thread: where each one is
    log              \* the validation that happened last and the write that happened last

\* the JwksManager and its callers
ManagerVars == <<ttl, cache, lock, now, calls, log>>

vars == <<issued, genuine, jwks, receipt, pc, header, key, payload_b64u,
          signing_input, signature_bytes, is_valid, outcome, steps, adapter_calls,
          prev, tampers, other, ManagerVars>>

\* no JwksManager has been constructed
NoManager ==
    /\ ttl = 0
    /\ cache = <<>>
    /\ lock = [writers |-> {}, readers |-> {}]
    /\ now = 0
    /\ calls = <<>>
    /\ log = [validated |-> <<>>, written |-> <<>>]

\* how many fields of an issued receipt are altered before it is verified again
MaxTamper == 1

-----------------------------------------------------------------------------
(* The external signature primitives.  The issuer holds one private key and   *)
(* has signed one message.  Signatures are not unique: 220 and 221 are two    *)
(* valid signatures of the issuer on that message (ECDSA (r, s) and (r, n-s), *)
(* or two nonces).  222 is a well-formed signature nobody issued, 223 is 64   *)
(* bytes whose scalars are out of range.                                      *)

\* PublicKey::from_affine_coordinates succeeds on the points of the curve
OnCurveP256(xb, yb) == <<xb, yb>> \in {<< <<200>>, <<201>> >>, << <<202>>, <<203>> >>}

\* VerifyingKey::from_bytes succeeds on valid Ed25519 public keys
ValidEd25519Key(xb) == xb \in {<<204>>, <<205>>}

\* Signature::from_bytes succeeds when the scalars are in range
SignatureParses(sig) == sig # <<223>>

\* verifying_key.verify(message, &signature).is_ok() of p256
P256Verify(xb, yb, message, sig) ==
    /\ issued.alg = ES256
    /\ issued.pub = <<xb, yb>>
    /\ issued.msg = message
    /\ sig \in {<<220>>, <<221>>}

\* verifying_key.verify(message, &signature).is_ok() of ed25519_dalek
Ed25519Verify(xb, message, sig) ==
    /\ issued.alg = EdDSA
    /\ issued.pub = <<xb>>
    /\ issued.msg = message
    /\ sig \in {<<220>>, <<221>>}

-----------------------------------------------------------------------------
(* Results *)

\* CertNodeError
Error(variant, msg) == [variant |-> variant, msg |-> msg]
NoError == [variant |-> "", msg |-> ""]

\* Result<bool>
OkBool(b) == [ok |-> TRUE, val |-> b, err |-> NoError]
ErrBool(variant, msg) == [ok |-> FALSE, val |-> FALSE, err |-> Error(variant, msg)]

\* VerifyResult::ok()
VerifyResultOk == [ok |-> TRUE, reason |-> None]

\* VerifyResult::failed(reason) as it would read dropping the reason
VerifyResultFailed_NoReason(reason) == [ok |-> FALSE, reason |-> None]

\* VerifyResult::failed(reason)
VerifyResultFailed(reason) == [ok |-> FALSE, reason |-> Some(reason)]

NoVerdict == [ok |-> FALSE, reason |-> None]
Pending == [kind |-> "pending", verdict |-> NoVerdict, err |-> NoError]
RetOk(v) == [kind |-> "Ok", verdict |-> v, err |-> NoError]
RetErr(variant, msg) == [kind |-> "Err", verdict |-> NoVerdict, err |-> Error(variant, msg)]

-----------------------------------------------------------------------------
(* The signature adapters *)

\* verify_es256_signature as it would read propagating the verifier's error
VerifyEs256Signature_ErrOnInvalid(x, y, message, signature) ==
    LET xd == B64Decode(x)
        yd == B64Decode(y)
    IN  IF ~xd.ok THEN ErrBool("InvalidFormat", "Invalid x coordinate")
        ELSE IF ~yd.ok THEN ErrBool("InvalidFormat", "Invalid y coordinate")
        ELSE IF ByteLen(xd.bytes) # 32 \/ ByteLen(yd.bytes) # 32
        THEN ErrBool("InvalidFormat", "Invalid coordinate length for P-256")
        ELSE IF ~OnCurveP256(xd.bytes, yd.bytes)
        THEN ErrBool("CryptographicError", "Invalid public key point")
        ELSE IF ByteLen(signature) # 64
        THEN ErrBool("InvalidFormat", "ES256 signature must be 64 bytes")
        ELSE IF ~SignatureParses(signature)
        THEN ErrBool("InvalidFormat", "Invalid signature format")
        ELSE IF P256Verify(xd.bytes, yd.bytes, message, signature) THEN OkBool(TRUE)
        ELSE ErrBool("CryptographicError", "Signature verification failed")

\* verify_es256_signature
VerifyEs256Signature(x, y, message, signature) ==
    LET xd == B64Decode(x)
        yd == B64Decode(y)
    IN  IF ~xd.ok THEN ErrBool("InvalidFormat", "Invalid x coordinate")
        ELSE IF ~yd.ok THEN ErrBool("InvalidFormat", "Invalid y coordinate")
        ELSE IF ByteLen(xd.bytes) # 32 \/ ByteLen(yd.bytes) # 32
        THEN ErrBool("InvalidFormat", "Invalid coordinate length for P-256")
        ELSE IF ~OnCurveP256(xd.bytes, yd.bytes)
        THEN ErrBool("CryptographicError", "Invalid public key point")
        ELSE IF ByteLen(signature) # 64
        THEN ErrBool("InvalidFormat", "ES256 signature must be 64 bytes")
        ELSE IF ~SignatureParses(signature)
        THEN ErrBool("InvalidFormat", "Invalid signature format")
        ELSE OkBool(P256Verify(xd.bytes, yd.bytes, message, signature))

\* verify_eddsa_signature as it would read reporting a key of the wrong length
\* as a cryptographic error
VerifyEddsaSignature_LengthCrypto(x, message, signature) ==
    LET xd == B64Decode(x)
    IN  IF ~xd.ok THEN ErrBool("InvalidFormat", "Invalid x coordinate")
        ELSE IF ByteLen(xd.bytes) # 32
        THEN ErrBool("CryptographicError", "Invalid public key length for Ed25519")
        ELSE IF ~ValidEd25519Key(xd.bytes)
        THEN ErrBool("CryptographicError", "Invalid Ed25519 public key")
        ELSE IF ByteLen(signature) # 64 \/ ~SignatureParses(signature)
        THEN ErrBool("InvalidFormat", "Invalid signature format")
        ELSE OkBool(Ed25519Verify(xd.bytes, message, signature))

\* verify_eddsa_signature
VerifyEddsaSignature(x, message, signature) ==
    LET xd == B64Decode(x)
    IN  IF ~xd.ok THEN ErrBool("InvalidFormat", "Invalid x coordinate")
        ELSE IF ByteLen(xd.bytes) # 32
        THEN ErrBool("InvalidFormat", "Invalid public key length for Ed25519")
        ELSE IF ~ValidEd25519Key(xd.bytes)
        THEN ErrBool("CryptographicError", "Invalid Ed25519 public key")
        ELSE IF ByteLen(signature) # 64 \/ ~SignatureParses(signature)
        THEN ErrBool("InvalidFormat", "Invalid signature format")
        ELSE OkBool(Ed25519Verify(xd.bytes, message, signature))

-----------------------------------------------------------------------------
(* Inputs *)

\* the issuer's keys: an EC P-256 key and an Ed25519 key, both labelled k1
KeyEC1 == JwkEc(P256, B64Encode(<<200>>), B64Encode(<<201>>), Some(Kid1), Some(ES256))
KeyED1 == JwkOkp(Ed25519, B64Encode(<<204>>), Some(Kid1), Some(EdDSA))
\* the issuer's EC key published without kid
KeyEC1n == JwkEc(P256, B64Encode(<<200>>), B64Encode(<<201>>), None, None)
\* other keys carrying the label k1
KeyEC2 == JwkEc(P256, B64Encode(<<202>>), B64Encode(<<203>>), Some(Kid1), None)
KeyED2 == JwkOkp(Ed25519, B64Encode(<<205>>), Some(Kid1), None)
KeyEC384 == JwkEc(P384, B64Encode(<<200>>), B64Encode(<<201>>), Some(Kid1), None)
KeyED448 == JwkOkp(Ed448, B64Encode(<<204>>), Some(Kid1), None)
KeyECshort == JwkEc(P256, B64Encode(<<1, 2>>), B64Encode(<<201>>), Some(Kid1), None)
KeyECoff == JwkEc(P256, B64Encode(<<206>>), B64Encode(<<201>>), Some(Kid1), None)
KeyEDbad == JwkOkp(Ed25519, B64Encode(<<207>>), Some(Kid1), None)
\* a key labelled k2
KeyEC3 == JwkEc(P256, B64Encode(<<202>>), B64Encode(<<203>>), Some(Kid2), None)

JwksCases ==
    { <<>>, <<KeyEC1>>, <<KeyED1>>, <<KeyEC1n>>,
      <<KeyEC2, KeyEC1>>, <<KeyEC1, KeyED1>>,
      <<KeyED2>>, <<KeyEC384>>, <<KeyED448>>, <<KeyECshort>>, <<KeyECoff>>,
      <<KeyEDbad>> }

\* {"b":2,"a":1}
Payload0 == JObj(<< <<<<98>>, JInt(2)>>, <<<<97>>, JInt(1)>> >>)
\* {"a":1,"b":2}: the same members in another order
Payload0r == JObj(<< <<<<97>>, JInt(1)>>, <<<<98>>, JInt(2)>> >>)
\* {"b":2,"a":1,"c":null}: one more member, whose value is null
Payload0n == JObj(<< <<<<98>>, JInt(2)>>, <<<<97>>, JInt(1)>>, <<<<99>>, JNull>> >>)
\* {"b":3,"a":1}: another value
Payload1 == JObj(<< <<<<98>>, JInt(3)>>, <<<<97>>, JInt(1)>> >>)

Payloads == {Payload0, Payload0r, Payload0n, Payload1}

\* base64url(SHA-256(canonicalize(payload)))
JcsHashOf(payload) == B64Encode(Sha256(CanonicalizeJson(payload).s))

\* protected + "." + base64url(canonicalize(payload))
SigningInputOf(protected, payload) ==
    protected \o <<46>> \o B64Encode(CanonicalizeJson(payload).s)

\* base64url(SHA-256(protected + "." + base64url(canonicalize(payload)) + "." + signature))
ReceiptIdOf(protected, payload, signature) ==
    B64Encode(Sha256(SigningInputOf(protected, payload) \o <<46>> \o signature))

SignerKey(alg) == IF alg = ES256 THEN KeyEC1 ELSE KeyED1
SignerPub(alg) == IF alg = ES256 THEN << <<200>>, <<201>> >> ELSE << <<204>> >>

\* the receipt an issuer builds: it signs protected + "." + base64url(canonical
\* payload); the two optional fields are filled in together or left out
IssueReceipt(alg, kid, bare) ==
    LET protected == B64Encode(HeaderJson(alg, kid))
        signature == B64Encode(<<220>>)
    IN  [protected |-> protected,
         payload |-> Payload0,
         signature |-> signature,
         kid |-> kid,
         payload_jcs_sha256 |-> IF bare THEN None ELSE Some(JcsHashOf(Payload0)),
         receipt_id |-> IF bare THEN None
                        ELSE Some(ReceiptIdOf(protected, Payload0, signature))]

\* values an altered field may take
ProtectedValues ==
    { <<>>, <<61>>, B64Encode(<<91, 93>>), B64Encode(HeaderJsonNoKid(issued.alg)),
      B64Encode(HeaderJson(ES256, genuine.kid)), B64Encode(HeaderJson(EdDSA, genuine.kid)),
      B64Encode(HeaderJson(RS256, genuine.kid)), B64Encode(HeaderJson(issued.alg, Kid2)),
      B64Encode(HeaderJsonTyp(issued.alg, genuine.kid)) }

SignatureValues ==
    { <<>>, <<61>>, B64Encode(<<220>>), B64Encode(<<221>>), B64Encode(<<222>>),
      B64Encode(<<223>>), B64Encode(<<1, 2>>) }

KidValues == { <<>>, Kid1, Kid2, JwkThumbprint(SignerKey(issued.alg)).s }

PayloadHashValues ==
    { None, Some(JcsHashOf(Payload0)), Some(JcsHashOf(Payload1)), Some(<<61>>) }

ReceiptIdValues ==
    { None, Some(ReceiptIdOf(receipt.protected, receipt.payload, receipt.signature)),
      Some(B64Encode(Sha256(<<48>>))) }

NoHeader == [alg |-> <<>>, kid |-> <<>>]

\* the locals of a call on receipt r that has not run yet
Fresh(r) ==
    [receipt |-> r, pc |-> "start", header |-> NoHeader, key |-> None,
     payload_b64u |-> <<>>, signing_input |-> <<>>, signature_bytes |-> <<>>,
     is_valid |-> FALSE, outcome |-> Pending, steps |-> <<>>, adapter_calls |-> <<>>]

\* there is one call only
NoOther ==
    [phase |-> "single", turn |-> 1, regs |-> Fresh(<<>>), solo |-> <<Pending, Pending>>,
     given |-> <<>>, keys |-> <<>>, mixed |-> FALSE]

\* how the issuer fills a receipt: <<kid is the thumbprint, optional fields left out>>
IssueForms == { <<FALSE, FALSE>>, <<FALSE, TRUE>>, <<TRUE, FALSE>> }

Init ==
    \E alg \in {ES256, EdDSA}, form \in IssueForms, ks \in JwksCases :
        LET kid == IF form[1] THEN JwkThumbprint(SignerKey(alg)).s ELSE Kid1
            g == IssueReceipt(alg, kid, form[2])
        IN  /\ genuine = g
            /\ receipt = g
            /\ issued = [alg |-> alg, pub |-> SignerPub(alg),
                         msg |-> SigningInputOf(g.protected, g.payload)]
            /\ jwks = ks
            /\ pc = "start"
            /\ header = NoHeader
            /\ key = None
            /\ payload_b64u = <<>>
            /\ signing_input = <<>>
            /\ signature_bytes = <<>>
            /\ is_valid = FALSE
            /\ outcome = Pending
            /\ steps = <<>>
            /\ adapter_calls = <<>>
            /\ prev = [receipt |-> g, outcome |-> Pending]
            /\ tampers = 0
            /\ other = NoOther
            /\ NoManager

-----------------------------------------------------------------------------
(* verify_receipt, step by step *)

Inputs == <<issued, genuine, jwks, receipt, prev, tampers, other, ManagerVars>>

\* falling through as it would read if the step were tried again
Goto_Retry(step, next) ==
    /\ pc' = step
    /\ steps' = Append(steps, step)
    /\ UNCHANGED outcome

\* return from verify_receipt
Return(step, o) ==
    /\ pc' = "done"
    /\ outcome' = o
    /\ steps' = Append(steps, step)

\* fall through to the next step
Goto(step, next) ==
    /\ pc' = next
    /\ steps' = Append(steps, step)
    /\ UNCHANGED outcome

\* "Validate receipt structure" as it would read testing kid, signature, protected
ValidateStructure_KidFirst ==
    /\ pc = "start"
    /\ IF receipt.kid = <<>>
       THEN Return("start", RetOk(VerifyResultFailed("Missing kid")))
       ELSE IF receipt.signature = <<>>
       THEN Return("start", RetOk(VerifyResultFailed("Missing signature")))
       ELSE IF receipt.protected = <<>>
       THEN Return("start", RetOk(VerifyResultFailed("Missing protected header")))
       ELSE Goto("start", "decode_header")
    /\ UNCHANGED <<Inputs, header, key, payload_b64u, signing_input,
                   signature_bytes, is_valid, adapter_calls>>

\* "Validate receipt structure"
ValidateStructure ==
    /\ pc = "start"
    /\ IF receipt.protected = <<>>
       THEN Return("start", RetOk(VerifyResultFailed("Missing protected header")))
       ELSE IF receipt.signature = <<>>
       THEN Return("start", RetOk(VerifyResultFailed("Missing signature")))
       ELSE IF receipt.kid = <<>>
       THEN Return("start", RetOk(VerifyResultFailed("Missing kid")))
       ELSE Goto("start", "decode_header")
    /\ UNCHANGED <<Inputs, header, key, payload_b64u, signing_input,
                   signature_bytes, is_valid, adapter_calls>>

\* "Decode protected header" as it would read answering a header that is not
\* the expected JSON with a verdict
DecodeHeader_Verdict ==
    /\ pc = "decode_header"
    /\ LET header_bytes == B64Decode(receipt.protected)
           parsed == ParseHeader(header_bytes.bytes)
       IN  IF ~header_bytes.ok
           THEN /\ Return("decode_header",
                          RetErr("InvalidFormat", "Invalid protected header encoding"))
                /\ UNCHANGED header
           ELSE IF ~parsed.ok
           THEN /\ Return("decode_header", RetOk(VerifyResultFailed("Invalid header JSON")))
                /\ UNCHANGED header
           ELSE /\ header' = [alg |-> parsed.alg, kid |-> parsed.kid]
                /\ Goto("decode_header", "validate_alg")
    /\ UNCHANGED <<Inputs, key, payload_b64u, signing_input, signature_bytes, is_valid,
                   adapter_calls>>

\* "Decode protected header"
DecodeHeader ==
    /\ pc = "decode_header"
    /\ LET header_bytes == B64Decode(receipt.protected)
           parsed == ParseHeader(header_bytes.bytes)
       IN  IF ~header_bytes.ok
           THEN /\ Return("decode_header",
                          RetErr("InvalidFormat", "Invalid protected header encoding"))
                /\ UNCHANGED header
           ELSE IF ~parsed.ok
           THEN /\ Return("decode_header", RetErr("InvalidFormat", "Invalid header JSON"))
                /\ UNCHANGED header
           ELSE /\ header' = [alg |-> parsed.alg, kid |-> parsed.kid]
                /\ Goto("decode_header", "validate_alg")
    /\ UNCHANGED <<Inputs, key, payload_b64u, signing_input, signature_bytes, is_valid,
                   adapter_calls>>

\* "Validate algorithm" as it would read with the kid compared first
ValidateAlgorithm_AfterKid ==
    /\ pc = "validate_alg"
    /\ IF header.kid # receipt.kid
       THEN Return("validate_alg",
                   RetOk(VerifyResultFailed("Kid mismatch between header and receipt")))
       ELSE IF header.alg # ES256 /\ header.alg # EdDSA
       THEN Return("validate_alg", RetOk(VerifyResultFailed("Unsupported algorithm")))
       ELSE Goto("validate_alg", "validate_kid")
    /\ UNCHANGED <<Inputs, header, key, payload_b64u, signing_input,
                   signature_bytes, is_valid, adapter_calls>>

\* "Validate algorithm"
ValidateAlgorithm ==
    /\ pc = "validate_alg"
    /\ IF header.alg # ES256 /\ header.alg # EdDSA
       THEN Return("validate_alg", RetOk(VerifyResultFailed("Unsupported algorithm")))
       ELSE Goto("validate_alg", "validate_kid")
    /\ UNCHANGED <<Inputs, header, key, payload_b64u, signing_input,
                   signature_bytes, is_valid, adapter_calls>>

\* "Validate kid consistency" as it would read without the comparison
ValidateKid_Skip ==
    /\ pc = "validate_kid"
    /\ Goto("validate_kid", "find_key")
    /\ UNCHANGED <<Inputs, header, key, payload_b64u, signing_input,
                   signature_bytes, is_valid, adapter_calls>>

\* "Validate kid consistency"
ValidateKid ==
    /\ pc = "validate_kid"
    /\ IF header.kid # receipt.kid
       THEN Return("validate_kid",
                   RetOk(VerifyResultFailed("Kid mismatch between header and receipt")))
       ELSE Goto("validate_kid", "find_key")
    /\ UNCHANGED <<Inputs, header, key, payload_b64u, signing_input,
                   signature_bytes, is_valid, adapter_calls>>

\* find_key_in_jwks as it would read on a &mut Jwks, moving the key it found
\* to the front of the key set
FindKey_MoveToFront ==
    /\ pc = "find_key"
    /\ LET found == FindKeyInJwks(receipt.kid, jwks)
       IN  /\ key' = found
           /\ IF found = None
              THEN /\ Return("find_key", RetOk(VerifyResultFailed("Key not found in JWKS")))
                   /\ UNCHANGED jwks
              ELSE /\ Goto("find_key", "jcs_hash")
                   /\ jwks' = <<Unwrap(found)>>
                                \o SelectSeq(jwks, LAMBDA k : k # Unwrap(found))
    /\ UNCHANGED <<issued, genuine, receipt, prev, tampers, other, ManagerVars, header,
                   payload_b64u, signing_input, signature_bytes, is_valid, adapter_calls>>

\* "Find matching key in JWKS" as it would read if the loop propagated the
\* error of jwk_thumbprint
FindKey_PropagateThumbprint ==
    /\ pc = "find_key"
    /\ LET visits == FindVisits(receipt.kid, jwks, 1)
           failing == \E i \in 1..Len(visits) : ~JwkThumbprint(jwks[visits[i]]).ok
           found == FindKeyInJwks(receipt.kid, jwks)
       IN  IF failing
           THEN /\ Return("find_key", RetErr("UnsupportedKey", "thumbprint"))
                /\ UNCHANGED key
           ELSE /\ key' = found
                /\ IF found = None
                   THEN Return("find_key",
                               RetOk(VerifyResultFailed("Key not found in JWKS")))
                   ELSE Goto("find_key", "jcs_hash")
    /\ UNCHANGED <<Inputs, header, payload_b64u, signing_input, signature_bytes, is_valid,
                   adapter_calls>>

\* "Find matching key in JWKS"
FindKey ==
    /\ pc = "find_key"
    /\ LET found == FindKeyInJwks(receipt.kid, jwks)
       IN  /\ key' = found
           /\ IF found = None
              THEN Return("find_key", RetOk(VerifyResultFailed("Key not found in JWKS")))
              ELSE Goto("find_key", "jcs_hash")
    /\ UNCHANGED <<Inputs, header, payload_b64u, signing_input, signature_bytes, is_valid,
                   adapter_calls>>

\* "Validate JCS hash if present" as it would read without the comparison
ValidateJcsHash_Skip ==
    /\ pc = "jcs_hash"
    /\ Goto("jcs_hash", "signing_input")
    /\ UNCHANGED <<Inputs, header, key, payload_b64u, signing_input,
                   signature_bytes, is_valid, adapter_calls>>

\* "Validate JCS hash if present"
ValidateJcsHash ==
    /\ pc = "jcs_hash"
    /\ IF IsSome(receipt.payload_jcs_sha256)
       THEN LET jcs_bytes == CanonicalizeJson(receipt.payload)
                computed_hash == Sha256(jcs_bytes.s)
                expected_bytes == B64Decode(Unwrap(receipt.payload_jcs_sha256))
            IN  IF ~jcs_bytes.ok
                THEN Return("jcs_hash", RetErr(jcs_bytes.err, "canonicalize"))
                ELSE IF ~expected_bytes.ok
                THEN Return("jcs_hash", RetErr("InvalidFormat", "Invalid JCS hash encoding"))
                ELSE IF computed_hash # expected_bytes.bytes
                THEN Return("jcs_hash", RetOk(VerifyResultFailed("JCS hash mismatch")))
                ELSE Goto("jcs_hash", "signing_input")
       ELSE Goto("jcs_hash", "signing_input")
    /\ UNCHANGED <<Inputs, header, key, payload_b64u, signing_input,
                   signature_bytes, is_valid, adapter_calls>>

\* "Create signing input" as it would read if the first part were encoded
\* again from the decoded header
CreateSigningInput_ReencodeHeader ==
    /\ pc = "signing_input"
    /\ LET payload_bytes == CanonicalizeJson(receipt.payload)
       IN  IF ~payload_bytes.ok
           THEN /\ Return("signing_input", RetErr(payload_bytes.err, "canonicalize"))
                /\ UNCHANGED <<payload_b64u, signing_input>>
           ELSE /\ payload_b64u' = B64Encode(payload_bytes.s)
                /\ signing_input' = B64Encode(HeaderJson(header.alg, header.kid))
                                        \o <<46>> \o B64Encode(payload_bytes.s)
                /\ Goto("signing_input", "decode_signature")
    /\ UNCHANGED <<Inputs, header, key, signature_bytes, is_valid, adapter_calls>>

\* "Create signing input"
CreateSigningInput ==
    /\ pc = "signing_input"
    /\ LET payload_bytes == CanonicalizeJson(receipt.payload)
       IN  IF ~payload_bytes.ok
           THEN /\ Return("signing_input", RetErr(payload_bytes.err, "canonicalize"))
                /\ UNCHANGED <<payload_b64u, signing_input>>
           ELSE /\ payload_b64u' = B64Encode(payload_bytes.s)
                /\ signing_input' = receipt.protected \o <<46>> \o B64Encode(payload_bytes.s)
                /\ Goto("signing_input", "decode_signature")
    /\ UNCHANGED <<Inputs, header, key, signature_bytes, is_valid, adapter_calls>>

\* "Verify signature": the signature is decoded first
DecodeSignature ==
    /\ pc = "decode_signature"
    /\ LET decoded == B64Decode(receipt.signature)
       IN  IF ~decoded.ok
           THEN /\ Return("decode_signature",
                          RetErr("InvalidFormat", "Invalid signature encoding"))
                /\ UNCHANGED signature_bytes
           ELSE /\ signature_bytes' = decoded.bytes
                /\ Goto("decode_signature", "verify_signature")
    /\ UNCHANGED <<Inputs, header, key, payload_b64u, signing_input, is_valid,
                   adapter_calls>>

\* the match on (alg, key) as it would read without the checks of crv
MatchAlgKey_NoCurveCheck(alg, k, message, signature) ==
    IF alg = ES256 /\ k.variant = "Ec"
    THEN [early |-> FALSE, reason |-> "",
          res |-> VerifyEs256Signature(k.x, k.y, message, signature)]
    ELSE IF alg = EdDSA /\ k.variant = "Okp"
    THEN [early |-> FALSE, reason |-> "",
          res |-> VerifyEddsaSignature(k.x, message, signature)]
    ELSE [early |-> TRUE, reason |-> "Algorithm incompatible with key type",
          res |-> OkBool(FALSE)]

\* the match on (alg, key) as it would read if a key's own alg field, when
\* present, took the place of the header's
MatchAlgKey_UseKeyAlg(alg, k, message, signature) ==
    LET a == IF k.alg # <<>> THEN k.alg[1] ELSE alg
    IN  IF a = ES256 /\ k.variant = "Ec"
        THEN IF k.crv # P256
             THEN [early |-> TRUE, reason |-> "ES256 requires P-256 curve",
                   res |-> OkBool(FALSE)]
             ELSE [early |-> FALSE, reason |-> "",
                   res |-> VerifyEs256Signature(k.x, k.y, message, signature)]
        ELSE IF a = EdDSA /\ k.variant = "Okp"
        THEN IF k.crv # Ed25519
             THEN [early |-> TRUE, reason |-> "EdDSA requires Ed25519 curve",
                   res |-> OkBool(FALSE)]
             ELSE [early |-> FALSE, reason |-> "",
                   res |-> VerifyEddsaSignature(k.x, message, signature)]
        ELSE [early |-> TRUE, reason |-> "Algorithm incompatible with key type",
              res |-> OkBool(FALSE)]

\* the match on (alg, key): Result<bool> of the adapter, or the verdict returned early
MatchAlgKey(alg, k, message, signature) ==
    IF alg = ES256 /\ k.variant = "Ec"
    THEN IF k.crv # P256
         THEN [early |-> TRUE, reason |-> "ES256 requires P-256 curve", res |-> OkBool(FALSE)]
         ELSE [early |-> FALSE, reason |-> "",
               res |-> VerifyEs256Signature(k.x, k.y, message, signature)]
    ELSE IF alg = EdDSA /\ k.variant = "Okp"
    THEN IF k.crv # Ed25519
         THEN [early |-> TRUE, reason |-> "EdDSA requires Ed25519 curve", res |-> OkBool(FALSE)]
         ELSE [early |-> FALSE, reason |-> "",
               res |-> VerifyEddsaSignature(k.x, message, signature)]
    ELSE [early |-> TRUE, reason |-> "Algorithm incompatible with key type",
          res |-> OkBool(FALSE)]

\* let is_valid = match (&header.alg[..], key) { ... }
VerifySignature ==
    /\ pc = "verify_signature"
    /\ LET m == MatchAlgKey(header.alg, Unwrap(key), signing_input, signature_bytes)
       IN  IF m.early
           THEN /\ Return("verify_signature", RetOk(VerifyResultFailed(m.reason)))
                /\ UNCHANGED <<is_valid, adapter_calls>>
           ELSE /\ adapter_calls' = Append(adapter_calls, signing_input)
                /\ IF ~m.res.ok
                   THEN /\ Return("verify_signature",
                                  RetErr(m.res.err.variant, m.res.err.msg))
                        /\ UNCHANGED is_valid
                   ELSE /\ is_valid' = m.res.val
                        /\ Goto("verify_signature", "check_valid")
    /\ UNCHANGED <<Inputs, header, key, payload_b64u, signing_input, signature_bytes>>

\* if !is_valid, as it would read if the result of the adapter were not looked at
CheckValid_Skip ==
    /\ pc = "check_valid"
    /\ Goto("check_valid", "receipt_id")
    /\ UNCHANGED <<Inputs, header, key, payload_b64u, signing_input,
                   signature_bytes, is_valid, adapter_calls>>

\* if !is_valid
CheckValid ==
    /\ pc = "check_valid"
    /\ IF ~is_valid
       THEN Return("check_valid", RetOk(VerifyResultFailed("Invalid signature")))
       ELSE Goto("check_valid", "receipt_id")
    /\ UNCHANGED <<Inputs, header, key, payload_b64u, signing_input,
                   signature_bytes, is_valid, adapter_calls>>

\* "Validate receipt ID if present" as it would read without the comparison
ValidateReceiptId_Skip ==
    /\ pc = "receipt_id"
    /\ Return("receipt_id", RetOk(VerifyResultOk))
    /\ UNCHANGED <<Inputs, header, key, payload_b64u, signing_input,
                   signature_bytes, is_valid, adapter_calls>>

\* "Validate receipt ID if present", then Ok(VerifyResult::ok())
ValidateReceiptId ==
    /\ pc = "receipt_id"
    /\ IF IsSome(receipt.receipt_id)
       THEN LET full_receipt == receipt.protected \o <<46>> \o payload_b64u
                                    \o <<46>> \o receipt.signature
                computed_id == B64Encode(Sha256(full_receipt))
            IN  IF computed_id # Unwrap(receipt.receipt_id)
                THEN Return("receipt_id", RetOk(VerifyResultFailed("Receipt ID mismatch")))
                ELSE Return("receipt_id", RetOk(VerifyResultOk))
       ELSE Return("receipt_id", RetOk(VerifyResultOk))
    /\ UNCHANGED <<Inputs, header, key, payload_b64u, signing_input,
                   signature_bytes, is_valid, adapter_calls>>

-----------------------------------------------------------------------------
(* The caller: after a call returns, one field of the receipt is altered and  *)
(* the altered receipt is verified against the same key set.                  *)

\* the caller may alter the receipt once the call on it has returned
MayCallAgain == pc = "done" /\ tampers < MaxTamper

CallAgain(r) ==
    /\ r # receipt
    /\ receipt' = r
    /\ prev' = [receipt |-> receipt, outcome |-> outcome]
    /\ tampers' = tampers + 1
    /\ pc' = "start"
    /\ header' = NoHeader
    /\ key' = None
    /\ payload_b64u' = <<>>
    /\ signing_input' = <<>>
    /\ signature_bytes' = <<>>
    /\ is_valid' = FALSE
    /\ outcome' = Pending
    /\ steps' = <<>>
    /\ adapter_calls' = <<>>
    /\ UNCHANGED <<issued, genuine, jwks, other, ManagerVars>>

TamperProtected ==
    /\ MayCallAgain
    /\ \E v \in ProtectedValues : CallAgain([receipt EXCEPT !.protected = v])

TamperPayload ==
    /\ MayCallAgain
    /\ \E v \in Payloads : CallAgain([receipt EXCEPT !.payload = v])

TamperSignature ==
    /\ MayCallAgain
    /\ \E v \in SignatureValues : CallAgain([receipt EXCEPT !.signature = v])

TamperKid ==
    /\ MayCallAgain
    /\ \E v \in KidValues : CallAgain([receipt EXCEPT !.kid = v])

TamperPayloadHash ==
    /\ MayCallAgain
    /\ \E v \in PayloadHashValues : CallAgain([receipt EXCEPT !.payload_jcs_sha256 = v])

TamperReceiptId ==
    /\ MayCallAgain
    /\ \E v \in ReceiptIdValues : CallAgain([receipt EXCEPT !.receipt_id = v])

Next ==
    \/ ValidateStructure
    \/ DecodeHeader
    \/ ValidateAlgorithm
    \/ ValidateKid
    \/ FindKey
    \/ ValidateJcsHash
    \/ CreateSigningInput
    \/ DecodeSignature
    \/ VerifySignature
    \/ CheckValid
    \/ ValidateReceiptId
    \/ TamperProtected
    \/ TamperPayload
    \/ TamperSignature
    \/ TamperKid
    \/ TamperPayloadHash
    \/ TamperReceiptId

Spec == Init /\ [][Next]_vars

-----------------------------------------------------------------------------
(* Key resolution alone: find_key_in_jwks on every kid of a pool and every   *)
(* key set of at most MaxKeys keys of a pool, duplicates included.           *)

\* the longest key set handed to find_key_in_jwks
MaxKeys == 2

\* a key whose kid field is the thumbprint of another key
KeyAlias == JwkOkp(Ed25519, B64Encode(<<205>>), Some(JwkThumbprint(KeyEC1).s), None)

KeyPool == {KeyEC1, KeyEC1n, KeyED1, KeyEC384, KeyEC3, KeyAlias}

KidPool == {Kid1, Kid2, <<107, 51>>, JwkThumbprint(KeyEC1).s, JwkThumbprint(KeyED1).s}

KeySets == UNION {[1..n -> KeyPool] : n \in 0..MaxKeys}

InitResolve ==
    \E kid \in KidPool, ks \in KeySets :
        LET g == IssueReceipt(ES256, kid, TRUE)
        IN  /\ genuine = g
            /\ receipt = g
            /\ issued = [alg |-> ES256, pub |-> SignerPub(ES256),
                         msg |-> SigningInputOf(g.protected, g.payload)]
            /\ jwks = ks
            /\ pc = "find_key"
            /\ header = [alg |-> ES256, kid |-> kid]
            /\ key = None
            /\ payload_b64u = <<>>
            /\ signing_input = <<>>
            /\ signature_bytes = <<>>
            /\ is_valid = FALSE
            /\ outcome = Pending
            /\ steps = <<>>
            /\ adapter_calls = <<>>
            /\ prev = [receipt |-> g, outcome |-> Pending]
            /\ tampers = 0
            /\ other = NoOther
            /\ NoManager

NextResolve == FindKey

SpecResolve == InitResolve /\ [][NextResolve]_vars

-----------------------------------------------------------------------------
(* One call of verify_receipt on a receipt of any content: every field is    *)
(* drawn from a pool that holds empty, undecodable, wrong and right values.  *)

\* {"alg":1,"kid":...}: alg is not a string
HeaderJsonNumAlg(kid) ==
    <<123>> \o JsonString(AlgName) \o <<58, 49, 44>>
            \o JsonString(KidName) \o <<58>> \o JsonString(kid) \o <<125>>

ProtectedPool ==
    { <<>>, <<61>>, B64Encode(<<91, 93>>), B64Encode(HeaderJsonNoKid(ES256)),
      B64Encode(HeaderJsonNumAlg(Kid1)),
      B64Encode(HeaderJson(ES256, Kid1)), B64Encode(HeaderJson(ES256, Kid2)),
      B64Encode(HeaderJson(RS256, Kid1)), B64Encode(HeaderJson(RS256, Kid2)),
      B64Encode(HeaderJson(EdDSA, Kid1)) }

SignaturePool == { <<>>, <<61>>, B64Encode(<<220>>), B64Encode(<<222>>) }

ReceiptKidPool == { <<>>, Kid1, Kid2, <<107, 51>> }

PayloadHashPool == { None, Some(<<61>>), Some(JcsHashOf(Payload1)) }

\* receiptId left out, computed, or another identifier
ReceiptIdForms == { "none", "computed", "other" }

JwksPool == { <<>>, <<KeyEC1>>, <<KeyEC3, KeyEC1>> }

\* verify_receipt entered on the receipt made of these fields
InitReceipt(p, sg, kd, h, idf, ks) ==
    LET g == IssueReceipt(ES256, Kid1, TRUE)
        r == [protected |-> p, payload |-> Payload0, signature |-> sg, kid |-> kd,
              payload_jcs_sha256 |-> h,
              receipt_id |-> IF idf = "none" THEN None
                             ELSE IF idf = "computed"
                             THEN Some(ReceiptIdOf(p, Payload0, sg))
                             ELSE Some(B64Encode(Sha256(<<48>>)))]
    IN  /\ genuine = g
        /\ receipt = r
        /\ issued = [alg |-> ES256, pub |-> SignerPub(ES256),
                     msg |-> SigningInputOf(g.protected, g.payload)]
        /\ jwks = ks
        /\ pc = "start"
        /\ header = NoHeader
        /\ key = None
        /\ payload_b64u = <<>>
        /\ signing_input = <<>>
        /\ signature_bytes = <<>>
        /\ is_valid = FALSE
        /\ outcome = Pending
        /\ steps = <<>>
        /\ adapter_calls = <<>>
        /\ prev = [receipt |-> r, outcome |-> Pending]
        /\ tampers = 0
        /\ other = NoOther
        /\ NoManager

InitPipeline ==
    \E p \in ProtectedPool, sg \in SignaturePool, kd \in ReceiptKidPool,
       h \in PayloadHashPool, idf \in ReceiptIdForms, ks \in JwksPool :
        InitReceipt(p, sg, kd, h, idf, ks)

\* receipts that get past the structural check and end at every later step
InitTermination ==
    \E p \in { <<61>>, B64Encode(HeaderJsonNoKid(ES256)), B64Encode(HeaderJson(ES256, Kid1)),
                B64Encode(HeaderJson(ES256, Kid2)), B64Encode(HeaderJson(RS256, Kid1)) },
       sg \in { B64Encode(<<220>>), B64Encode(<<222>>) },
       h \in { None, Some(<<61>>) }, idf \in { "none", "other" },
       ks \in { <<>>, <<KeyEC3, KeyEC1>> } :
        InitReceipt(p, sg, Kid1, h, idf, ks)

NextPipeline ==
    \/ ValidateStructure
    \/ DecodeHeader
    \/ ValidateAlgorithm
    \/ ValidateKid
    \/ FindKey
    \/ ValidateJcsHash
    \/ CreateSigningInput
    \/ DecodeSignature
    \/ VerifySignature
    \/ CheckValid
    \/ ValidateReceiptId

SpecPipeline == InitPipeline /\ [][NextPipeline]_vars

\* a call that has been entered keeps running: its thread is scheduled until
\* the function returns
SpecPipelineFair == InitTermination /\ [][NextPipeline]_vars /\ WF_vars(NextPipeline)

-----------------------------------------------------------------------------
(* The caller verifies the same receipt again against a key set in which one *)
(* key carries another alg or another kty string; nothing else of the key    *)
(* set differs.                                                               *)

\* the caller gives one key of the set another alg and another kty string and
\* calls verify_receipt on the same receipt
RelabelKeys ==
    /\ MayCallAgain
    /\ \E i \in 1..Len(jwks), a \in {None, Some(ES256), Some(EdDSA)}, t \in {KtyEC, KtyOKP} :
           /\ jwks' = [jwks EXCEPT ![i] = [@ EXCEPT !.alg = a, !.kty = t]]
           /\ jwks' # jwks
    /\ prev' = [receipt |-> receipt, outcome |-> outcome]
    /\ tampers' = tampers + 1
    /\ pc' = "start"
    /\ header' = NoHeader
    /\ key' = None
    /\ payload_b64u' = <<>>
    /\ signing_input' = <<>>
    /\ signature_bytes' = <<>>
    /\ is_valid' = FALSE
    /\ outcome' = Pending
    /\ steps' = <<>>
    /\ adapter_calls' = <<>>
    /\ UNCHANGED <<issued, genuine, receipt, other, ManagerVars>>

SpecRelabel == InitPipeline /\ [][NextPipeline \/ RelabelKeys]_vars

-----------------------------------------------------------------------------
(* Two calls of verify_receipt on the same key set. Each call has its own    *)
(* locals and its own &Receipt; the key set is one &Jwks. First each call    *)
(* runs alone and what it returns is recorded, then the two run together,    *)
(* the thread of one preempted in favour of the other between any two steps. *)

\* the locals of the call that is running
Running ==
    [receipt |-> receipt, pc |-> pc, header |-> header, key |-> key,
     payload_b64u |-> payload_b64u, signing_input |-> signing_input,
     signature_bytes |-> signature_bytes, is_valid |-> is_valid, outcome |-> outcome,
     steps |-> steps, adapter_calls |-> adapter_calls]

\* the thread of call c gets the processor
Resume(c) ==
    /\ receipt' = c.receipt
    /\ pc' = c.pc
    /\ header' = c.header
    /\ key' = c.key
    /\ payload_b64u' = c.payload_b64u
    /\ signing_input' = c.signing_input
    /\ signature_bytes' = c.signature_bytes
    /\ is_valid' = c.is_valid
    /\ outcome' = c.outcome
    /\ steps' = c.steps
    /\ adapter_calls' = c.adapter_calls

\* the receipts of the two calls: the issued receipt, the receipt with another
\* payload, signature, kid or receipt id, and a receipt with an EdDSA header
ConcurrentReceipts ==
    LET g == IssueReceipt(ES256, Kid1, FALSE)
    IN  { g,
          [g EXCEPT !.payload = Payload1],
          [g EXCEPT !.signature = B64Encode(<<222>>)],
          [g EXCEPT !.kid = Kid2],
          [g EXCEPT !.receipt_id = Some(B64Encode(Sha256(<<48>>)))],
          IssueReceipt(EdDSA, Kid1, FALSE) }

InitConcurrent ==
    \E ra \in ConcurrentReceipts, rb \in ConcurrentReceipts,
       ks \in {<<KeyEC1>>, <<KeyEC3, KeyEC1>>} :
        LET g == IssueReceipt(ES256, Kid1, FALSE)
        IN  /\ genuine = g
            /\ receipt = ra
            /\ issued = [alg |-> ES256, pub |-> SignerPub(ES256),
                         msg |-> SigningInputOf(g.protected, g.payload)]
            /\ jwks = ks
            /\ pc = "start"
            /\ header = NoHeader
            /\ key = None
            /\ payload_b64u = <<>>
            /\ signing_input = <<>>
            /\ signature_bytes = <<>>
            /\ is_valid = FALSE
            /\ outcome = Pending
            /\ steps = <<>>
            /\ adapter_calls = <<>>
            /\ prev = [receipt |-> ra, outcome |-> Pending]
            /\ tampers = 0
            /\ other = [phase |-> "alone", turn |-> 1, regs |-> Fresh(rb),
                        solo |-> <<Pending, Pending>>, given |-> <<ra, rb>>,
                        keys |-> ks, mixed |-> FALSE]
            /\ NoManager

\* a call that ran alone has returned: what it returned is recorded, and the
\* second call runs alone, or the two calls start together
StartNext ==
    /\ other.phase = "alone"
    /\ pc = "done"
    /\ IF other.turn = 1
       THEN /\ Resume(Fresh(other.given[2]))
            /\ other' = [other EXCEPT !.solo[1] = outcome, !.turn = 2]
       ELSE /\ Resume(Fresh(other.given[1]))
            /\ other' = [other EXCEPT !.solo[2] = outcome, !.turn = 1,
                                      !.phase = "together",
                                      !.regs = Fresh(other.given[2])]
    /\ UNCHANGED <<issued, genuine, jwks, prev, tampers, ManagerVars>>

\* the running call is preempted and the other call goes on
Switch ==
    /\ other.phase = "together"
    /\ other.regs.pc # "done"
    /\ Resume(other.regs)
    /\ other' = [other EXCEPT !.regs = Running, !.turn = 3 - @,
                              !.mixed = @ \/ (/\ pc \notin {"start", "done"}
                                              /\ other.regs.pc # "start")]
    /\ UNCHANGED <<issued, genuine, jwks, prev, tampers, ManagerVars>>

NextConcurrent ==
    \/ NextPipeline
    \/ StartNext
    \/ Switch

SpecConcurrent == InitConcurrent /\ [][NextConcurrent]_vars

-----------------------------------------------------------------------------
(* The signature adapters alone: the match on (alg, key) entered with a key  *)
(* that fits the algorithm, on key material, messages and signature bytes of *)
(* every shape.                                                              *)

\* the keys of the key sets, and keys whose coordinates are not base64url or
\* decode to another length than 32 bytes
AdapterKeys(alg) ==
    IF alg = ES256
    THEN {KeyEC1, KeyEC2, KeyECshort, KeyECoff,
          JwkEc(P256, B64Encode(<<200>>), B64Encode(<<1, 2>>), Some(Kid1), None),
          JwkEc(P256, <<61>>, B64Encode(<<201>>), Some(Kid1), None),
          JwkEc(P256, B64Encode(<<200>>), <<61>>, Some(Kid1), None)}
    ELSE {KeyED1, KeyED2, KeyEDbad,
          JwkOkp(Ed25519, B64Encode(<<1, 2>>), Some(Kid1), None),
          JwkOkp(Ed25519, <<61>>, Some(Kid1), None)}

\* signature bytes: two valid ones, a well-formed invalid one, 64 bytes that
\* do not parse, 2 bytes, none, 128 bytes
AdapterSignatures ==
    { <<220>>, <<221>>, <<222>>, <<223>>, <<1, 2>>, <<>>, <<220, 220>> }

InitAdapter ==
    \E alg \in {ES256, EdDSA}, sg \in AdapterSignatures, alt \in BOOLEAN :
      \E k \in AdapterKeys(alg) :
        LET g == IssueReceipt(alg, Kid1, TRUE)
            r == [g EXCEPT !.signature = B64Encode(sg),
                           !.payload = IF alt THEN Payload1 ELSE Payload0]
        IN  /\ genuine = g
            /\ receipt = r
            /\ issued = [alg |-> alg, pub |-> SignerPub(alg),
                         msg |-> SigningInputOf(g.protected, g.payload)]
            /\ jwks = <<k>>
            /\ pc = "verify_signature"
            /\ header = [alg |-> alg, kid |-> Kid1]
            /\ key = Some(k)
            /\ payload_b64u = B64Encode(CanonicalizeJson(r.payload).s)
            /\ signing_input = SigningInputOf(r.protected, r.payload)
            /\ signature_bytes = sg
            /\ is_valid = FALSE
            /\ outcome = Pending
            /\ steps = <<>>
            /\ adapter_calls = <<>>
            /\ prev = [receipt |-> r, outcome |-> Pending]
            /\ tampers = 0
            /\ other = NoOther
            /\ NoManager

NextAdapter == VerifySignature

SpecAdapter == InitAdapter /\ [][NextAdapter]_vars

-----------------------------------------------------------------------------
(* canonicalize_json alone: the payload is any value of a bounded universe   *)
(* of nested JSON values, canonicalized where verify_receipt builds the      *)
(* signing input.                                                            *)

\* the most members an object of the universe has
MaxMembers == 2

\* the sequences of at most MaxMembers members, keys distinct
MemberSeqs(keys, values) ==
    {m \in UNION {[1..n -> keys \X values] : n \in 0..MaxMembers} :
        \A i, j \in 1..Len(m) : i # j => m[i][1] # m[j][1]}

\* null, 1, "x", [null,{"d":2,"c":null}], the objects {}, {"d":2,"c":2},
\* {"c":2,"d":2}, {"d":null,"c":2}, {"d":null,"c":null}, and the objects with
\* keys "b", "a", "ab" whose values are any of these
CanonValues ==
    LET d == <<100>>
        c == <<99>>
        inner == {JObj(<<>>),
                  JObj(<< <<d, JInt(2)>>, <<c, JInt(2)>> >>),
                  JObj(<< <<c, JInt(2)>>, <<d, JInt(2)>> >>),
                  JObj(<< <<d, JNull>>, <<c, JInt(2)>> >>),
                  JObj(<< <<d, JNull>>, <<c, JNull>> >>)}
        array == JArr(<<JNull, JObj(<< <<d, JInt(2)>>, <<c, JNull>> >>)>>)
        values == {JNull, JInt(1), JStr(<<120>>), array} \cup inner
    IN  {JObj(m) : m \in MemberSeqs({<<98>>, <<97>>, <<97, 98>>}, values)}
            \cup values

InitCanon ==
    \E v \in CanonValues :
        LET g == IssueReceipt(ES256, Kid1, TRUE)
            r == [g EXCEPT !.payload = v]
        IN  /\ genuine = g
            /\ receipt = r
            /\ issued = [alg |-> ES256, pub |-> SignerPub(ES256),
                         msg |-> SigningInputOf(g.protected, g.payload)]
            /\ jwks = <<KeyEC1>>
            /\ pc = "signing_input"
            /\ header = [alg |-> ES256, kid |-> Kid1]
            /\ key = Some(KeyEC1)
            /\ payload_b64u = <<>>
            /\ signing_input = <<>>
            /\ signature_bytes = <<>>
            /\ is_valid = FALSE
            /\ outcome = Pending
            /\ steps = <<>>
            /\ adapter_calls = <<>>
            /\ prev = [receipt |-> r, outcome |-> Pending]
            /\ tampers = 0
            /\ other = NoOther
            /\ NoManager

NextCanon == CreateSigningInput

SpecCanon == InitCanon /\ [][NextCanon]_vars

-----------------------------------------------------------------------------
(* jwk_thumbprint alone, on keys of both variants with every combination of  *)
(* curve, coordinates, kid, alg and kty string.                              *)

ThumbprintKeys ==
    LET crvs == {P256, P384, Ed25519, Ed448}
        xs == {<<>>, B64Encode(<<200>>), <<34>>}
        ys == {B64Encode(<<201>>), <<34>>}
        kids == {None, Some(Kid1)}
        algs == {None, Some(ES256)}
        ktys == {KtyEC, KtyOKP, <<120>>}
    IN  {[JwkEc(crv, x, y, kid, alg) EXCEPT !.kty = kty] :
            crv \in crvs, x \in xs, y \in ys, kid \in kids, alg \in algs, kty \in ktys}
        \cup
        {[JwkOkp(crv, x, kid, alg) EXCEPT !.kty = kty] :
            crv \in crvs, x \in xs, kid \in kids, alg \in algs, kty \in ktys}

InitThumbprint ==
    \E k \in ThumbprintKeys :
        LET g == IssueReceipt(ES256, Kid1, TRUE)
        IN  /\ genuine = g
            /\ receipt = g
            /\ issued = [alg |-> ES256, pub |-> SignerPub(ES256),
                         msg |-> SigningInputOf(g.protected, g.payload)]
            /\ jwks = <<k>>
            /\ pc = "thumbprint"
            /\ header = NoHeader
            /\ key = Some(k)
            /\ payload_b64u = <<>>
            /\ signing_input = <<>>
            /\ signature_bytes = <<>>
            /\ is_valid = FALSE
            /\ outcome = Pending
            /\ steps = <<>>
            /\ adapter_calls = <<>>
            /\ prev = [receipt |-> g, outcome |-> Pending]
            /\ tampers = 0
            /\ other = NoOther
            /\ NoManager

\* certnode::jwk_thumbprint(key) called on a key of the key set
ThumbprintKey ==
    /\ pc = "thumbprint"
    /\ LET r == JwkThumbprint(Unwrap(key))
       IN  outcome' = IF r.ok THEN [kind |-> "Ok", thumbprint |-> r.s]
                      ELSE RetErr(r.err, "Only EC P-256 and OKP Ed25519 supported")
    /\ pc' = "done"
    /\ steps' = Append(steps, "thumbprint")
    /\ UNCHANGED <<Inputs, header, key, payload_b64u, signing_input, signature_bytes,
                   is_valid, adapter_calls>>

SpecThumbprint == InitThumbprint /\ [][ThumbprintKey]_vars

-----------------------------------------------------------------------------
(* canonicalize_json on numbers, strings, arrays and objects, and on the     *)
(* value read back from its own output: the payload is canonicalized, the    *)
(* bytes are parsed, and the value parsed is canonicalized in turn.          *)

\* the most items an array of the universe has
MaxItems == 2

\* null, true, false; 0, 42, -7; the f64 1.0, 3.14, 1e21, -0.5, 100.0, 0.0,
\* 1e-7; "", "x", a string of backslash, quote, newline, one of U+0001 and
\* backspace; arrays of at most MaxItems items; objects with keys "b", "a"
ReparseValues ==
    LET one == JFloat(FALSE, 1, 0)
        atoms == {JNull, JBool(TRUE), JBool(FALSE), JInt(0), JInt(42), JInt(-7),
                  one, JFloat(FALSE, 314, -2), JFloat(FALSE, 1, 21),
                  JFloat(TRUE, 5, -1), JFloat(FALSE, 1, 2), JFloat(FALSE, 0, 0),
                  JFloat(FALSE, 1, -7),
                  JStr(<<>>), JStr(<<120>>), JStr(<<92, 34, 10>>), JStr(<<1, 8>>)}
        elems == {JNull, JInt(3), JInt(1), one, JStr(<<120>>), JArr(<<>>),
                  JArr(<<JNull>>), JObj(<< <<<<98>>, JNull>>, <<<<97>>, JInt(1)>> >>)}
        arrays == {JArr(a) : a \in UNION {[1..n -> elems] : n \in 0..MaxItems}}
        objects == {JObj(m) : m \in MemberSeqs({<<98>>, <<97>>},
                                  {JNull, one, JStr(<<92>>), JArr(<<JInt(3), JNull>>)})}
    IN  atoms \cup arrays \cup objects

InitReparse ==
    \E v \in ReparseValues :
        LET g == IssueReceipt(ES256, Kid1, TRUE)
            r == [g EXCEPT !.payload = v]
        IN  /\ genuine = g
            /\ receipt = r
            /\ issued = [alg |-> ES256, pub |-> SignerPub(ES256),
                         msg |-> SigningInputOf(g.protected, g.payload)]
            /\ jwks = <<KeyEC1>>
            /\ pc = "signing_input"
            /\ header = [alg |-> ES256, kid |-> Kid1]
            /\ key = Some(KeyEC1)
            /\ payload_b64u = <<>>
            /\ signing_input = <<>>
            /\ signature_bytes = <<>>
            /\ is_valid = FALSE
            /\ outcome = Pending
            /\ steps = <<>>
            /\ adapter_calls = <<>>
            /\ prev = [receipt |-> r, outcome |-> Pending]
            /\ tampers = 0
            /\ other = NoOther
            /\ NoManager

\* the bytes canonicalize_json returned are parsed and the value read is
\* handed to canonicalize_json; the locals of the first call are kept
Reparse ==
    /\ pc = "decode_signature"
    /\ other.phase = "single"
    /\ LET p == ParseJson(B64Decode(payload_b64u).bytes)
       IN  IF p.ok
           THEN Resume([Fresh([receipt EXCEPT !.payload = p.v]) EXCEPT
                            !.pc = "signing_input", !.header = header, !.key = key])
           ELSE Resume([Running EXCEPT
                            !.pc = "done",
                            !.outcome = RetErr("JsonError", "canonical bytes do not parse")])
    /\ other' = [NoOther EXCEPT !.phase = "reparsed", !.regs = Running]
    /\ UNCHANGED <<issued, genuine, jwks, prev, tampers, ManagerVars>>

SpecReparse == InitReparse /\ [][CreateSigningInput \/ Reparse]_vars

-----------------------------------------------------------------------------
(* JwksManager (jwks.rs): one slot behind a reader/writer lock, holding the   *)
(* key set stored last and the instant it was stored. Two threads share one  *)
(* manager and call its methods; a call takes one step at a time, a thread   *)
(* waits where the lock makes it wait, and the clock ticks between steps.    *)
(* The assignment *cache = Some(CachedJwks {..}) writes the key set and then *)
(* the instant, both while the write lock is held. log keeps the key set    *)
(* validated last and the entry written last.                                *)

\* how far the clock runs
MaxTime == 2

\* how many calls are made on one manager
MaxCalls == 2

\* what verify_receipt works on
VerifierVars == <<issued, genuine, jwks, receipt, pc, header, key, payload_b64u,
                  signing_input, signature_bytes, is_valid, outcome, steps,
                  adapter_calls, prev, tampers, other>>

\* the freshness test as it would read with <= for <
IsFresh_Inclusive(cached) == now - cached.cached_at <= ttl

\* the freshness test as it would read if no entry were ever fresh
IsFresh_Never(cached) == FALSE

\* the freshness test as it would read with half the time-to-live
IsFresh_HalfTtl(cached) == 2 * (now - cached.cached_at) < ttl

\* cached.cached_at.elapsed() < self.ttl
IsFresh(cached) == now - cached.cached_at < ttl

\* validate_jwks as it would read if it accepted every key set
ValidateJwks_AcceptAll(ks) ==
    [ok |-> TRUE, variant |-> "", msg |-> "", key |-> 0, cause |-> ""]

\* validate_jwks as it would read if it checked only that there are keys
ValidateJwks_NonEmptyOnly(ks) ==
    [ok |-> ks # <<>>, variant |-> IF ks # <<>> THEN "" ELSE "InvalidFormat",
     msg |-> IF ks # <<>> THEN "" ELSE "JWKS contains no keys", key |-> 0, cause |-> ""]

\* validate_jwks, with validate_jwk on each key in order
ValidateJwks(ks) ==
    LET valid == [ok |-> TRUE, variant |-> "", msg |-> "", key |-> 0, cause |-> ""]
        invalid(variant, msg) ==
            [ok |-> FALSE, variant |-> variant, msg |-> msg, key |-> 0, cause |-> ""]
        validate_jwk(jwk) ==
            IF jwk.variant = "Ec"
            THEN IF jwk.crv # P256
                 THEN invalid("UnsupportedKey", "Only P-256 curve supported for EC keys")
                 ELSE IF jwk.x = <<>> \/ jwk.y = <<>>
                      THEN invalid("InvalidFormat", "EC key missing x or y coordinate")
                      ELSE valid
            ELSE IF jwk.crv # Ed25519
                 THEN invalid("UnsupportedKey", "Only Ed25519 curve supported for OKP keys")
                 ELSE IF jwk.x = <<>>
                      THEN invalid("InvalidFormat", "OKP key missing x coordinate")
                      ELSE valid
        failing == {i \in 1..Len(ks) : ~validate_jwk(ks[i]).ok}
        first == CHOOSE i \in failing : \A j \in failing : i <= j
    IN  IF ks = <<>>
        THEN invalid("InvalidFormat", "JWKS contains no keys")
        ELSE IF failing = {}
             THEN valid
             ELSE [ok |-> FALSE, variant |-> "InvalidFormat",
                   msg |-> validate_jwk(ks[first]).msg,
                   key |-> first - 1, cause |-> validate_jwk(ks[first]).variant]

\* JwksManager::new(ttl), shared by two threads that have called nothing yet
InitManager ==
    LET g == IssueReceipt(ES256, Kid1, TRUE)
    IN  /\ ttl \in {0, 2}
        /\ cache = None
        /\ lock = [writers |-> {}, readers |-> {}]
        /\ now = 0
        /\ calls = [p \in {1, 2} |->
                        [op |-> "", arg |-> <<>>, url |-> "", pc |-> "idle", n |-> 0,
                         at |-> 0,
                         ret |-> [kind |-> "pending", v |-> <<>>, err |-> None]]]
        /\ log = [validated |-> <<>>, written |-> <<>>]
        /\ genuine = g
        /\ receipt = g
        /\ issued = [alg |-> ES256, pub |-> SignerPub(ES256),
                     msg |-> SigningInputOf(g.protected, g.payload)]
        /\ jwks = <<>>
        /\ pc = "start"
        /\ header = NoHeader
        /\ key = None
        /\ payload_b64u = <<>>
        /\ signing_input = <<>>
        /\ signature_bytes = <<>>
        /\ is_valid = FALSE
        /\ outcome = Pending
        /\ steps = <<>>
        /\ adapter_calls = <<>>
        /\ prev = [receipt |-> g, outcome |-> Pending]
        /\ tampers = 0
        /\ other = NoOther

\* a thread that is in no call enters a method of the manager
Call(p) ==
    LET keysets == {<<KeyEC1>>, <<KeyED1, KeyEC3>>, <<KeyEC1, KeyEC384>>, <<>>,
                    <<KeyED448>>,
                    <<JwkEc(P256, <<>>, B64Encode(<<201>>), None, None)>>,
                    <<KeyED1, JwkEc(P256, B64Encode(<<200>>), <<>>, None, None)>>,
                    <<JwkOkp(Ed25519, <<>>, Some(Kid1), None)>>}
        listed == {<<KeyEC384, KeyEC1, KeyED448, KeyED1>>, <<KeyED1, KeyEC1>>}
        begin(op, arg, url, at) ==
            calls' = [calls EXCEPT ![p] =
                        [op |-> op, arg |-> arg, url |-> url, pc |-> at, n |-> @.n + 1,
                         at |-> 0,
                         ret |-> [kind |-> "pending", v |-> <<>>, err |-> None]]]
    IN  /\ calls[p].pc \in {"idle", "done"}
        /\ calls[1].n + calls[2].n < MaxCalls
        /\ \/ \E ks \in keysets : begin("set_from_object", ks, "", "validate")
           \/ \E url \in {"u1", "u2"} : begin("fetch_from_url", <<>>, url, "read_lock")
           \/ begin("get_fresh", <<>>, "", "read_lock")
           \/ begin("has_fresh_cache", <<>>, "", "read_lock")
           \/ begin("clear_cache", <<>>, "", "write_lock")
           \/ begin("thumbprints", None, "", "read_lock")
           \/ \E ks \in listed : begin("thumbprints", Some(ks), "", "list")
        /\ UNCHANGED <<VerifierVars, ttl, cache, lock, now, log>>

\* the acquisition as it would read if a reader did not wait for the writer
Acquire_ReadNoWait(p) ==
    /\ \/ /\ calls[p].pc = "read_lock"
          /\ lock' = [lock EXCEPT !.readers = @ \cup {p}]
          /\ calls' = [calls EXCEPT ![p].pc = "read"]
       \/ /\ calls[p].pc = "write_lock"
          /\ lock.writers = {}
          /\ lock.readers = {}
          /\ lock' = [lock EXCEPT !.writers = @ \cup {p}]
          /\ calls' = [calls EXCEPT ![p].pc = IF calls[p].op = "clear_cache"
                                              THEN "clear" ELSE "store"]
    /\ UNCHANGED <<VerifierVars, ttl, cache, now, log>>

\* the acquisition as it would read if a call storing a key set did not wait
\* for another call storing one
Acquire_WriteNoWait(p) ==
    /\ \/ /\ calls[p].pc = "read_lock"
          /\ lock.writers = {}
          /\ lock' = [lock EXCEPT !.readers = @ \cup {p}]
          /\ calls' = [calls EXCEPT ![p].pc = "read"]
       \/ /\ calls[p].pc = "write_lock"
          /\ lock.readers = {}
          /\ calls[p].op = "clear_cache" => lock.writers = {}
          /\ \A q \in lock.writers : calls[q].op # "clear_cache"
          /\ lock' = [lock EXCEPT !.writers = @ \cup {p}]
          /\ calls' = [calls EXCEPT ![p].pc = IF calls[p].op = "clear_cache"
                                              THEN "clear" ELSE "store"]
    /\ UNCHANGED <<VerifierVars, ttl, cache, now, log>>

\* self.cache.read().unwrap() and self.cache.write().unwrap(): a reader waits
\* while a writer holds the lock, a writer while anyone holds it
Acquire(p) ==
    /\ \/ /\ calls[p].pc = "read_lock"
          /\ lock.writers = {}
          /\ lock' = [lock EXCEPT !.readers = @ \cup {p}]
          /\ calls' = [calls EXCEPT ![p].pc = "read"]
       \/ /\ calls[p].pc = "write_lock"
          /\ lock.writers = {}
          /\ lock.readers = {}
          /\ lock' = [lock EXCEPT !.writers = @ \cup {p}]
          /\ calls' = [calls EXCEPT ![p].pc = IF calls[p].op = "clear_cache"
                                              THEN "clear" ELSE "store"]
    /\ UNCHANGED <<VerifierVars, ttl, cache, now, log>>

\* what a method does with the read lock held: get_fresh, has_fresh_cache, the
\* cache check of fetch_from_url, and thumbprints(None) borrowing the cached set
Read(p) ==
    LET c == calls[p]
        fresh == cache # None /\ IsFresh(Unwrap(cache))
        return(kind, v, err) ==
            calls' = [calls EXCEPT ![p].pc = "done",
                                   ![p].ret = [kind |-> kind, v |-> v, err |-> err]]
        goto(at) == calls' = [calls EXCEPT ![p].pc = at]
    IN  /\ c.pc = "read"
        /\ CASE c.op = "get_fresh" ->
                    IF fresh THEN return("Some", Unwrap(cache).jwks, None)
                             ELSE return("None", <<>>, None)
             [] c.op = "has_fresh_cache" -> return("Bool", fresh, None)
             [] c.op = "fetch_from_url" ->
                    IF fresh THEN return("Ok", Unwrap(cache).jwks, None)
                             ELSE goto("send")
             [] c.op = "thumbprints" ->
                    IF cache = None
                    THEN return("Err", <<>>,
                                Some([variant |-> "Other", msg |-> "No JWKS available",
                                      key |-> 0, cause |-> ""]))
                    ELSE goto("list")
        /\ lock' = IF c.op = "thumbprints" /\ cache # None
                   THEN lock
                   ELSE [lock EXCEPT !.readers = @ \ {p}]
        /\ UNCHANGED <<VerifierVars, ttl, cache, now, log>>

\* the loop of thumbprints as it would read if thumbprints(None) refused an
\* entry whose time-to-live has elapsed
Thumbprints_FreshOnly(p) ==
    LET c == calls[p]
        ks == IF c.arg # None THEN Unwrap(c.arg) ELSE Unwrap(cache).jwks
        good == SelectSeq(ks, LAMBDA k : JwkThumbprint(k).ok)
    IN  /\ c.pc = "list"
        /\ calls' = [calls EXCEPT
                        ![p].pc = "done",
                        ![p].ret = IF c.arg = None /\ ~IsFresh(Unwrap(cache))
                                   THEN [kind |-> "Err", v |-> <<>>,
                                         err |-> Some([variant |-> "Other",
                                                       msg |-> "No JWKS available",
                                                       key |-> 0, cause |-> ""])]
                                   ELSE [kind |-> "Ok",
                                         v |-> [i \in 1..Len(good) |->
                                                    JwkThumbprint(good[i]).s],
                                         err |-> None]]
        /\ lock' = [lock EXCEPT !.readers = @ \ {p}]
        /\ UNCHANGED <<VerifierVars, ttl, cache, now, log>>

\* the loop of thumbprints as it would read if a key without thumbprint made
\* the call fail
Thumbprints_FailOnUnsupported(p) ==
    LET c == calls[p]
        ks == IF c.arg # None THEN Unwrap(c.arg) ELSE Unwrap(cache).jwks
        good == SelectSeq(ks, LAMBDA k : JwkThumbprint(k).ok)
    IN  /\ c.pc = "list"
        /\ calls' = [calls EXCEPT
                        ![p].pc = "done",
                        ![p].ret = IF Len(good) < Len(ks)
                                   THEN [kind |-> "Err", v |-> <<>>,
                                         err |-> Some([variant |-> "UnsupportedKey",
                                                       msg |-> "", key |-> 0,
                                                       cause |-> ""])]
                                   ELSE [kind |-> "Ok",
                                         v |-> [i \in 1..Len(good) |->
                                                    JwkThumbprint(good[i]).s],
                                         err |-> None]]
        /\ lock' = [lock EXCEPT !.readers = @ \ {p}]
        /\ UNCHANGED <<VerifierVars, ttl, cache, now, log>>

\* the loop of thumbprints over the keys: a key without thumbprint is skipped
Thumbprints(p) ==
    LET c == calls[p]
        ks == IF c.arg # None THEN Unwrap(c.arg) ELSE Unwrap(cache).jwks
        good == SelectSeq(ks, LAMBDA k : JwkThumbprint(k).ok)
    IN  /\ c.pc = "list"
        /\ calls' = [calls EXCEPT
                        ![p].pc = "done",
                        ![p].ret = [kind |-> "Ok",
                                    v |-> [i \in 1..Len(good) |-> JwkThumbprint(good[i]).s],
                                    err |-> None]]
        /\ lock' = [lock EXCEPT !.readers = @ \ {p}]
        /\ UNCHANGED <<VerifierVars, ttl, cache, now, log>>

\* fetch_from_url past the cache check as it would read if a failed request
\* fell back to the entry in the slot
Send_StaleFallback(p) ==
    LET c == calls[p]
        fail(msg) ==
            calls' = [calls EXCEPT
                        ![p].pc = "done",
                        ![p].ret = IF cache # None /\ lock.writers = {}
                                   THEN [kind |-> "Ok", v |-> Unwrap(cache).jwks,
                                         err |-> None]
                                   ELSE [kind |-> "Err", v |-> <<>>,
                                         err |-> Some([variant |-> "NetworkError",
                                                       msg |-> msg, key |-> 0,
                                                       cause |-> ""])]]
    IN  /\ c.pc = "send"
        /\ \/ fail("error sending request")
           \/ fail("HTTP status from url")
           \/ fail("error decoding response body")
           \/ \E body \in {<<KeyEC2>>, <<KeyED2, KeyED448>>} :
                  calls' = [calls EXCEPT ![p].pc = "validate", ![p].arg = body]
        /\ UNCHANGED <<VerifierVars, ttl, cache, lock, now, log>>

\* fetch_from_url past the cache check: the request, the status and the body
Send(p) ==
    LET c == calls[p]
        fail(msg) ==
            calls' = [calls EXCEPT
                        ![p].pc = "done",
                        ![p].ret = [kind |-> "Err", v |-> <<>>,
                                    err |-> Some([variant |-> "NetworkError", msg |-> msg,
                                                  key |-> 0, cause |-> ""])]]
    IN  /\ c.pc = "send"
        /\ \/ fail("error sending request")
           \/ fail("HTTP status from url")
           \/ fail("error decoding response body")
           \/ \E body \in {<<KeyEC2>>, <<KeyED2, KeyED448>>} :
                  calls' = [calls EXCEPT ![p].pc = "validate", ![p].arg = body]
        /\ UNCHANGED <<VerifierVars, ttl, cache, lock, now, log>>

\* self.validate_jwks(&jwks)? of set_from_object and of fetch_from_url
Validate(p) ==
    LET c == calls[p]
        r == ValidateJwks(c.arg)
    IN  /\ c.pc = "validate"
        /\ IF r.ok
           THEN /\ calls' = [calls EXCEPT ![p].pc = "write_lock"]
                /\ log' = [log EXCEPT !.validated = Some([by |-> <<p, c.n>>,
                                                           jwks |-> c.arg])]
           ELSE /\ calls' = [calls EXCEPT
                                ![p].pc = "done",
                                ![p].ret = [kind |-> "Err", v |-> <<>>,
                                            err |-> Some([variant |-> r.variant,
                                                          msg |-> r.msg, key |-> r.key,
                                                          cause |-> r.cause])]]
                /\ UNCHANGED log
        /\ UNCHANGED <<VerifierVars, ttl, cache, lock, now>>

\* *cache = Some(CachedJwks { jwks, cached_at: Instant::now() }) with the write
\* lock held: the instant is taken and the key set written, then the instant
\* is written, the lock released and the call returns
Store(p) ==
    LET c == calls[p]
    IN  /\ \/ /\ c.pc = "store"
              /\ cache' = Some([jwks |-> c.arg,
                                cached_at |-> IF cache = None THEN 0
                                              ELSE Unwrap(cache).cached_at])
              /\ calls' = [calls EXCEPT ![p].pc = "stamp", ![p].at = now]
              /\ UNCHANGED <<lock, log>>
           \/ /\ c.pc = "stamp"
              /\ cache' = Some([Unwrap(cache) EXCEPT !.cached_at = c.at])
              /\ lock' = [lock EXCEPT !.writers = @ \ {p}]
              /\ log' = [log EXCEPT !.written = Some([by |-> <<p, c.n>>, op |-> c.op,
                                                       jwks |-> c.arg,
                                                       cached_at |-> c.at])]
              /\ calls' = [calls EXCEPT
                              ![p].pc = "done",
                              ![p].at = 0,
                              ![p].ret = [kind |-> "Ok",
                                          v |-> IF c.op = "fetch_from_url" THEN c.arg
                                                ELSE <<>>,
                                          err |-> None]]
        /\ UNCHANGED <<VerifierVars, ttl, now>>

\* clear_cache as it would read if it left the entry in the slot
Clear_Keep(p) ==
    LET c == calls[p]
    IN  /\ c.pc = "clear"
        /\ lock' = [lock EXCEPT !.writers = @ \ {p}]
        /\ log' = [log EXCEPT !.written = None]
        /\ calls' = [calls EXCEPT ![p].pc = "done",
                                  ![p].ret = [kind |-> "Ok", v |-> <<>>, err |-> None]]
        /\ UNCHANGED <<VerifierVars, ttl, cache, now>>

\* clear_cache: *cache = None with the write lock held
Clear(p) ==
    LET c == calls[p]
    IN  /\ c.pc = "clear"
        /\ cache' = None
        /\ lock' = [lock EXCEPT !.writers = @ \ {p}]
        /\ log' = [log EXCEPT !.written = None]
        /\ calls' = [calls EXCEPT ![p].pc = "done",
                                  ![p].ret = [kind |-> "Ok", v |-> <<>>, err |-> None]]
        /\ UNCHANGED <<VerifierVars, ttl, now>>

\* the passing of time as it would read if a timer removed the entry when its
\* time-to-live has elapsed
Tick_Evict ==
    /\ now < MaxTime
    /\ now' = now + 1
    /\ cache' = IF cache # None /\ lock.writers = {}
                    /\ now + 1 - Unwrap(cache).cached_at >= ttl
                 THEN None ELSE cache
    /\ UNCHANGED <<VerifierVars, ttl, lock, calls, log>>

\* time passes
Tick ==
    /\ now < MaxTime
    /\ now' = now + 1
    /\ UNCHANGED <<VerifierVars, ttl, cache, lock, calls, log>>

SpecManager ==
    InitManager
    /\ [][Tick \/ \E p \in {1, 2} :
                    \/ Call(p) \/ Acquire(p) \/ Read(p) \/ Thumbprints(p) \/ Send(p)
                    \/ Validate(p) \/ Store(p) \/ Clear(p)]_vars

-----------------------------------------------------------------------------
(* What the properties below say about a receipt and a key set, stated on    *)
(* the inputs of the call.                                                   *)

Done == pc = "done"
Accepted(o) == o.kind = "Ok" /\ o.verdict.ok
RejectedWith(o, reason) ==
    o.kind = "Ok" /\ ~o.verdict.ok /\ o.verdict.reason = <<reason>>
RejectedVerdict(o) == o.kind = "Ok" /\ ~o.verdict.ok
SystemError(o) == o.kind = "Err"

StructureOk(r) == r.protected # <<>> /\ r.signature # <<>> /\ r.kid # <<>>

HeaderOf(r) ==
    LET d == B64Decode(r.protected)
    IN  IF d.ok THEN ParseHeader(d.bytes) ELSE [ok |-> FALSE, alg |-> <<>>, kid |-> <<>>]

AlgAllowed(r) == HeaderOf(r).ok /\ HeaderOf(r).alg \in {ES256, EdDSA}
KidConsistent(r) == HeaderOf(r).ok /\ HeaderOf(r).kid = r.kid

\* the indices of the keys that answer to kid, by thumbprint or by kid field
Matching(kid, ks) ==
    {i \in 1..Len(ks) :
        \/ (JwkThumbprint(ks[i]).ok /\ JwkThumbprint(ks[i]).s = kid)
        \/ ks[i].kid = <<kid>>}
FirstMatching(kid, ks) == CHOOSE i \in Matching(kid, ks) : \A j \in Matching(kid, ks) : i <= j

HashOk(r) ==
    \/ r.payload_jcs_sha256 = <<>>
    \/ /\ B64Decode(r.payload_jcs_sha256[1]).ok
       /\ B64Decode(r.payload_jcs_sha256[1]).bytes = Sha256(CanonicalizeJson(r.payload).s)

Compatible(alg, k) ==
    \/ (alg = ES256 /\ k.variant = "Ec" /\ k.crv = P256)
    \/ (alg = EdDSA /\ k.variant = "Okp" /\ k.crv = Ed25519)

\* the key decodes to a public key the primitive accepts
KeyUsable(k) ==
    /\ B64Decode(k.x).ok
    /\ IF k.variant = "Ec"
       THEN /\ B64Decode(k.y).ok
            /\ ByteLen(B64Decode(k.x).bytes) = 32
            /\ ByteLen(B64Decode(k.y).bytes) = 32
            /\ OnCurveP256(B64Decode(k.x).bytes, B64Decode(k.y).bytes)
       ELSE /\ ByteLen(B64Decode(k.x).bytes) = 32
            /\ ValidEd25519Key(B64Decode(k.x).bytes)

\* the primitive's answer on the receipt's signing input, for a usable key
\* and a signature that decodes
PrimitiveAccepts(alg, k, r) ==
    LET message == SigningInputOf(r.protected, r.payload)
        sig == B64Decode(r.signature).bytes
    IN  IF alg = ES256
        THEN P256Verify(B64Decode(k.x).bytes, B64Decode(k.y).bytes, message, sig)
        ELSE Ed25519Verify(B64Decode(k.x).bytes, message, sig)

\* the signature is a valid signature of the signing input under key k
SignatureValid(alg, k, r) ==
    /\ B64Decode(r.signature).ok
    /\ ByteLen(B64Decode(r.signature).bytes) = 64
    /\ SignatureParses(B64Decode(r.signature).bytes)
    /\ KeyUsable(k)
    /\ PrimitiveAccepts(alg, k, r)

IdOk(r) ==
    \/ r.receipt_id = <<>>
    \/ r.receipt_id[1] = ReceiptIdOf(r.protected, r.payload, r.signature)

\* steps 1 to 5 pass: structure, header, algorithm, kid, key resolution
ResolvesKey(r, ks) ==
    StructureOk(r) /\ AlgAllowed(r) /\ KidConsistent(r) /\ Matching(r.kid, ks) # {}
ResolvedKey(r, ks) == ks[FirstMatching(r.kid, ks)]

-----------------------------------------------------------------------------
(* C1.  verify_receipt accepts only if protected, signature and kid are      *)
(* non-empty, the header's alg is ES256 or EdDSA, the header's kid equals    *)
(* the receipt's kid, a key of the key set answers to the kid, payloadHash   *)
(* is absent or the hash of the canonical payload, the resolved key fits the *)
(* algorithm, the signature verifies on the signing input, and receiptId is  *)
(* absent or the recomputed identifier.                                      *)
C1_AcceptedOnlyIfAllHold ==
    (Done /\ Accepted(outcome)) =>
        /\ ResolvesKey(receipt, jwks)
        /\ HashOk(receipt)
        /\ Compatible(HeaderOf(receipt).alg, ResolvedKey(receipt, jwks))
        /\ SignatureValid(HeaderOf(receipt).alg, ResolvedKey(receipt, jwks), receipt)
        /\ IdOk(receipt)

\* an accepted receipt that carries both optional fields
C1_Witness ==
    /\ Done /\ Accepted(outcome)
    /\ receipt.payload_jcs_sha256 # <<>> /\ receipt.receipt_id # <<>>

-----------------------------------------------------------------------------
(* C2.  Tamper detection.                                                    *)

\* the call before this one accepted a receipt, and this call ran on that
\* receipt with the one field altered
AlteredAfterAccept(field) ==
    /\ Done
    /\ Accepted(prev.outcome)
    /\ prev.receipt[field] # receipt[field]

RECURSIVE SameJson(_, _)
\* a and b are the same JSON value: objects are compared member by member,
\* whatever the order of their members
SameJson(a, b) ==
    IF a.t # b.t THEN FALSE
    ELSE IF a.t = "arr"
    THEN /\ Len(a.items) = Len(b.items)
         /\ \A i \in 1..Len(a.items) : SameJson(a.items[i], b.items[i])
    ELSE IF a.t = "obj"
    THEN /\ Len(a.members) = Len(b.members)
         /\ \A i \in 1..Len(a.members) :
                \E j \in 1..Len(b.members) :
                    /\ a.members[i][1] = b.members[j][1]
                    /\ SameJson(a.members[i][2], b.members[j][2])
    ELSE a = b

\* C2 as stated: after an accepted receipt, a receipt that differs from it in
\* payload (another JSON value, not only another order of members), in
\* signature or in protected is not accepted
C2_AnyChangeNotAccepted ==
    (\/ AlteredAfterAccept("payload") /\ ~SameJson(receipt.payload, prev.receipt.payload)
     \/ AlteredAfterAccept("signature")
     \/ AlteredAfterAccept("protected"))
    => ~Accepted(outcome)

\* C2 amended: after an accepted receipt, a receipt that differs from it in
\* protected, or in payload with another canonical form, or in signature while
\* receiptId is present or the new signature is not itself a valid signature of
\* the signing input under the resolved key, is not accepted: the call returns
\* a rejection verdict or a system error
C2_EffectiveChangeNotAccepted ==
    (\/ AlteredAfterAccept("protected")
     \/ /\ AlteredAfterAccept("payload")
        /\ CanonicalizeJson(receipt.payload) # CanonicalizeJson(prev.receipt.payload)
     \/ /\ AlteredAfterAccept("signature")
        /\ \/ receipt.receipt_id # <<>>
           \/ ~SignatureValid(HeaderOf(receipt).alg, ResolvedKey(receipt, jwks), receipt))
    => (RejectedVerdict(outcome) \/ SystemError(outcome))

\* a receipt accepted before its payload was given another value, rejected after
C2_Witness ==
    /\ AlteredAfterAccept("payload")
    /\ receipt.payload = Payload1
    /\ RejectedVerdict(outcome)

-----------------------------------------------------------------------------
(* C3.  Round-trip acceptance.                                               *)

\* key k is the key K the receipt was signed with, as the key set carries it
IsSignerKey(k) ==
    /\ k.variant = SignerKey(issued.alg).variant
    /\ k.crv = SignerKey(issued.alg).crv
    /\ k.x = SignerKey(issued.alg).x
    /\ (k.variant = "Ec" => k.y = SignerKey(issued.alg).y)

\* the receipt names K in header and kid, by K's kid field or K's thumbprint
NamesKey(r, k) ==
    /\ KidConsistent(r)
    /\ \/ k.kid = <<r.kid>>
       \/ (JwkThumbprint(k).ok /\ JwkThumbprint(k).s = r.kid)

\* header alg matches K's type and the signature is K's on the signing input
SignedBy(r, k) ==
    /\ StructureOk(r)
    /\ HeaderOf(r).ok
    /\ HeaderOf(r).alg = issued.alg
    /\ SignatureValid(issued.alg, k, r)

\* C3 as stated: a receipt signed by a key K of the key set, naming K, is
\* accepted (read with payloadHash and receiptId each absent or correct)
C3_SignedByMemberAccepted ==
    (/\ Done
     /\ \E i \in 1..Len(jwks) :
            IsSignerKey(jwks[i]) /\ NamesKey(receipt, jwks[i]) /\ SignedBy(receipt, jwks[i])
     /\ HashOk(receipt)
     /\ IdOk(receipt))
    => Accepted(outcome)

\* C3 amended: a receipt signed by a key K of the key set, naming K, is
\* accepted when K is the first key of the set that answers to the kid and
\* payloadHash and receiptId are each absent or correct
C3_SignedByFirstMatchAccepted ==
    (/\ Done
     /\ \E i \in 1..Len(jwks) :
            /\ IsSignerKey(jwks[i]) /\ NamesKey(receipt, jwks[i]) /\ SignedBy(receipt, jwks[i])
            /\ i = FirstMatching(receipt.kid, jwks)
     /\ HashOk(receipt)
     /\ IdOk(receipt))
    => Accepted(outcome)

\* an issued receipt, named by thumbprint, accepted against a set whose first
\* key is another key
C3_Witness ==
    /\ Done /\ Accepted(outcome) /\ tampers = 0
    /\ Len(jwks) = 2
    /\ receipt.kid # Kid1

-----------------------------------------------------------------------------
(* C4.  A verdict carries a reason if and only if it is not accepted.        *)
C4_ReasonIffNotAccepted ==
    outcome.kind = "Ok" => (outcome.verdict.ok <=> outcome.verdict.reason = <<>>)

\* a returned rejection, with its reason
C4_Witness ==
    Done /\ outcome.kind = "Ok" /\ ~outcome.verdict.ok /\ Len(outcome.verdict.reason) = 1

-----------------------------------------------------------------------------
(* C5.  Key resolution returns the key at the smallest index whose           *)
(* thumbprint or whose kid field equals the requested kid, and none exactly  *)
(* when no key matches either way.                                           *)

InSteps(step) == \E i \in 1..Len(steps) : steps[i] = step

C5_FirstMatchInOrder ==
    InSteps("find_key") =>
        /\ (Matching(receipt.kid, jwks) = {} <=> key = <<>>)
        /\ (Matching(receipt.kid, jwks) # {} =>
                key = <<jwks[FirstMatching(receipt.kid, jwks)]>>)

\* the first key answers by its kid field, a later and different key by its thumbprint
C5_Witness ==
    /\ InSteps("find_key")
    /\ Len(jwks) = 2
    /\ jwks[1] # jwks[2]
    /\ jwks[1].kid = <<receipt.kid>>
    /\ JwkThumbprint(jwks[2]).ok /\ JwkThumbprint(jwks[2]).s = receipt.kid
    /\ key = <<jwks[1]>>

-----------------------------------------------------------------------------
(* C6.  When structure, algorithm and kid consistency pass and no key of the *)
(* key set answers to receipt.kid, the call returns the rejection "Key not   *)
(* found in JWKS", not a system error, whatever payloadHash, signature and   *)
(* receiptId hold.                                                           *)
C6_KeyNotFoundVerdict ==
    (/\ Done
     /\ StructureOk(receipt) /\ AlgAllowed(receipt) /\ KidConsistent(receipt)
     /\ Matching(receipt.kid, jwks) = {})
    => RejectedWith(outcome, "Key not found in JWKS")

\* no key answers, in a key set that is not empty, and payloadHash does not decode
C6_Witness ==
    /\ Done
    /\ jwks # <<>>
    /\ receipt.payload_jcs_sha256 = <<<<61>>>>
    /\ RejectedWith(outcome, "Key not found in JWKS")

-----------------------------------------------------------------------------
(* C7.  A payloadHash that is present and decodes to other bytes than the    *)
(* SHA-256 of the canonical payload is rejected as "JCS hash mismatch"       *)
(* before the signature is decoded or verified; without payloadHash the hash *)
(* step is skipped.                                                          *)

HashDiffers(r) ==
    /\ r.payload_jcs_sha256 # <<>>
    /\ B64Decode(r.payload_jcs_sha256[1]).ok
    /\ B64Decode(r.payload_jcs_sha256[1]).bytes # Sha256(CanonicalizeJson(r.payload).s)

C7_HashMismatchBeforeSignature ==
    /\ (Done /\ ResolvesKey(receipt, jwks) /\ HashDiffers(receipt)) =>
           /\ RejectedWith(outcome, "JCS hash mismatch")
           /\ ~InSteps("decode_signature")
           /\ adapter_calls = <<>>
    /\ (InSteps("decode_signature") \/ adapter_calls # <<>>) => ~HashDiffers(receipt)
    /\ (Done /\ ResolvesKey(receipt, jwks) /\ receipt.payload_jcs_sha256 = <<>>) =>
           /\ InSteps("decode_signature")
           /\ ~RejectedWith(outcome, "JCS hash mismatch")

\* a hash mismatch returned for a receipt whose signature would not have verified
C7_Witness ==
    /\ Done
    /\ RejectedWith(outcome, "JCS hash mismatch")
    /\ ResolvesKey(receipt, jwks)
    /\ Compatible(HeaderOf(receipt).alg, ResolvedKey(receipt, jwks))
    /\ ~SignatureValid(HeaderOf(receipt).alg, ResolvedKey(receipt, jwks), receipt)

-----------------------------------------------------------------------------
(* C8.  Algorithm and key type.                                              *)

\* the receipt reaches the match on (alg, key) as far as the steps before the
\* signature go, and the resolved key does not fit the algorithm
KeyDoesNotFit(r, ks) ==
    /\ ResolvesKey(r, ks)
    /\ HashOk(r)
    /\ ~Compatible(HeaderOf(r).alg, ResolvedKey(r, ks))

VariantFits(alg, k) ==
    (alg = ES256 /\ k.variant = "Ec") \/ (alg = EdDSA /\ k.variant = "Okp")

\* C8 as stated: a resolved key that is not an EC key on P-256 under ES256, or
\* not an OKP key on Ed25519 under EdDSA, gives the rejection "Algorithm
\* incompatible with key type" without a call of the adapter, whatever the
\* signature field holds
C8_IncompatibleReason ==
    (Done /\ KeyDoesNotFit(receipt, jwks)) =>
        /\ RejectedWith(outcome, "Algorithm incompatible with key type")
        /\ adapter_calls = <<>>

\* C8 amended: with a signature field that is valid base64url, such a key
\* gives a rejection without a call of the adapter: "Algorithm incompatible
\* with key type" when the variant of the key does not fit the algorithm,
\* "ES256 requires P-256 curve" or "EdDSA requires Ed25519 curve" when the
\* variant fits and the curve does not; a signature field that is not valid
\* base64url gives an InvalidFormat error instead, also without a call
C8_IncompatibleRejected ==
    (Done /\ KeyDoesNotFit(receipt, jwks)) =>
        /\ adapter_calls = <<>>
        /\ IF ~B64Decode(receipt.signature).ok
           THEN outcome = [kind |-> "Err", verdict |-> [ok |-> FALSE, reason |-> <<>>],
                           err |-> [variant |-> "InvalidFormat",
                                    msg |-> "Invalid signature encoding"]]
           ELSE IF ~VariantFits(HeaderOf(receipt).alg, ResolvedKey(receipt, jwks))
           THEN RejectedWith(outcome, "Algorithm incompatible with key type")
           ELSE IF HeaderOf(receipt).alg = ES256
           THEN RejectedWith(outcome, "ES256 requires P-256 curve")
           ELSE RejectedWith(outcome, "EdDSA requires Ed25519 curve")

\* an EC key on another curve, under ES256, with a signature nobody issued
C8_Witness ==
    /\ Done
    /\ KeyDoesNotFit(receipt, jwks)
    /\ receipt.signature = B64Encode(<<222>>)
    /\ RejectedWith(outcome, "ES256 requires P-256 curve")

-----------------------------------------------------------------------------
(* C9.  Invalid signature.                                                   *)

\* the steps before the adapter pass and the signature decodes to 64 bytes
Decodes64(r, ks) ==
    /\ ResolvesKey(r, ks)
    /\ HashOk(r)
    /\ Compatible(HeaderOf(r).alg, ResolvedKey(r, ks))
    /\ B64Decode(r.signature).ok
    /\ ByteLen(B64Decode(r.signature).bytes) = 64

\* C9 as stated: a signature of 64 bytes that is not a valid signature of the
\* signing input under the resolved key gives the rejection "Invalid
\* signature", and the receipt-id check is not evaluated (read with a resolved
\* key whose coordinates form a valid public key)
C9_InvalidSignatureVerdict ==
    (/\ Done
     /\ Decodes64(receipt, jwks)
     /\ KeyUsable(ResolvedKey(receipt, jwks))
     /\ ~SignatureValid(HeaderOf(receipt).alg, ResolvedKey(receipt, jwks), receipt))
    => (RejectedWith(outcome, "Invalid signature") /\ ~InSteps("receipt_id"))

\* C9 amended: the same, when moreover the coordinates of the resolved key
\* decode to a valid public key and the 64 bytes parse as a signature;
\* otherwise the call ends in a system error
C9_InvalidSignatureOfUsableKey ==
    (/\ Done
     /\ Decodes64(receipt, jwks)
     /\ ~SignatureValid(HeaderOf(receipt).alg, ResolvedKey(receipt, jwks), receipt))
    => IF /\ KeyUsable(ResolvedKey(receipt, jwks))
          /\ SignatureParses(B64Decode(receipt.signature).bytes)
       THEN /\ RejectedWith(outcome, "Invalid signature")
            /\ ~InSteps("receipt_id")
            /\ Len(adapter_calls) = 1
       ELSE SystemError(outcome) /\ ~InSteps("receipt_id")

\* an invalid signature rejected on a receipt whose receiptId is wrong as well
C9_Witness ==
    /\ Done
    /\ Decodes64(receipt, jwks)
    /\ ~IdOk(receipt)
    /\ RejectedWith(outcome, "Invalid signature")

-----------------------------------------------------------------------------
(* C10.  With receiptId present the call accepts only when receiptId is      *)
(* base64url(SHA-256(protected.base64url(canonical payload).signature)); a   *)
(* differing receiptId on a receipt with a valid signature is rejected as    *)
(* "Receipt ID mismatch"; the check is reached only after the signature has  *)
(* verified.                                                                 *)
C10_ReceiptIdBinding ==
    /\ (Done /\ Accepted(outcome) /\ receipt.receipt_id # <<>>) =>
           receipt.receipt_id[1]
               = ReceiptIdOf(receipt.protected, receipt.payload, receipt.signature)
    /\ (/\ Done
        /\ Decodes64(receipt, jwks)
        /\ SignatureValid(HeaderOf(receipt).alg, ResolvedKey(receipt, jwks), receipt)
        /\ ~IdOk(receipt))
       => RejectedWith(outcome, "Receipt ID mismatch")
    /\ (InSteps("receipt_id") \/ RejectedWith(outcome, "Receipt ID mismatch")) =>
           /\ is_valid
           /\ Decodes64(receipt, jwks)
           /\ SignatureValid(HeaderOf(receipt).alg, ResolvedKey(receipt, jwks), receipt)

\* a validly signed receipt rejected for its receiptId alone
C10_Witness ==
    /\ Done
    /\ RejectedWith(outcome, "Receipt ID mismatch")
    /\ ResolvesKey(receipt, jwks)
    /\ HashOk(receipt)
    /\ Compatible(HeaderOf(receipt).alg, ResolvedKey(receipt, jwks))
    /\ SignatureValid(HeaderOf(receipt).alg, ResolvedKey(receipt, jwks), receipt)

-----------------------------------------------------------------------------
(* C11.  With protected, signature or kid empty the call returns the         *)
(* rejection that names the first empty field, in the order protected,       *)
(* signature, kid, as its very first step: nothing is decoded and the        *)
(* outcome is a verdict whatever the other fields hold.                      *)
C11_MissingFieldVerdict ==
    (Done /\ ~StructureOk(receipt)) =>
        /\ steps = <<"start">>
        /\ header = NoHeader
        /\ RejectedWith(outcome,
                        IF receipt.protected = <<>> THEN "Missing protected header"
                        ELSE IF receipt.signature = <<>> THEN "Missing signature"
                        ELSE "Missing kid")

\* an empty kid on a receipt whose protected field is not base64url and whose
\* payloadHash is not base64url either
C11_Witness ==
    /\ Done
    /\ receipt.kid = <<>>
    /\ receipt.protected = <<61>>
    /\ receipt.payload_jcs_sha256 = <<<<61>>>>
    /\ RejectedWith(outcome, "Missing kid")

-----------------------------------------------------------------------------
(* C12.  A header that decodes with an alg other than ES256 and EdDSA is     *)
(* rejected as "Unsupported algorithm" before the kid comparison and the key *)
(* lookup, also when the kids differ or no key answers to the kid.           *)
C12_UnsupportedAlgorithmFirst ==
    (/\ Done
     /\ StructureOk(receipt)
     /\ HeaderOf(receipt).ok
     /\ HeaderOf(receipt).alg \notin {ES256, EdDSA})
    => /\ RejectedWith(outcome, "Unsupported algorithm")
       /\ ~InSteps("validate_kid")
       /\ ~InSteps("find_key")

\* an RS256 header whose kid differs from the receipt's, which no key answers to
C12_Witness ==
    /\ Done
    /\ receipt.protected = B64Encode(HeaderJson(RS256, Kid2))
    /\ receipt.kid = <<107, 51>>
    /\ RejectedWith(outcome, "Unsupported algorithm")

-----------------------------------------------------------------------------
(* C13.  With an allowed alg and a header kid other than receipt.kid the     *)
(* call returns "Kid mismatch between header and receipt" and no key is      *)
(* looked up, whatever keys the key set holds.                               *)
C13_KidMismatchBeforeResolution ==
    (/\ Done
     /\ StructureOk(receipt)
     /\ AlgAllowed(receipt)
     /\ HeaderOf(receipt).kid # receipt.kid)
    => /\ RejectedWith(outcome, "Kid mismatch between header and receipt")
       /\ ~InSteps("find_key")
       /\ key = <<>>

\* the key set holds a key for the header's kid and a key for the receipt's kid
C13_Witness ==
    /\ Done
    /\ RejectedWith(outcome, "Kid mismatch between header and receipt")
    /\ Matching(receipt.kid, jwks) # {}
    /\ Matching(HeaderOf(receipt).kid, jwks) # {}

-----------------------------------------------------------------------------
(* C15.  A call ends in a verdict or in a typed system error, never both:    *)
(* the eight kinds of rejection are verdicts with ok = false, and a          *)
(* protected field that is not base64url or does not decode to an object     *)
(* with string alg and kid ends the call with InvalidFormat and no verdict.  *)

VerdictReasons ==
    { "Missing protected header", "Missing signature", "Missing kid",
      "Unsupported algorithm", "Kid mismatch between header and receipt",
      "Key not found in JWKS", "JCS hash mismatch",
      "ES256 requires P-256 curve", "EdDSA requires Ed25519 curve",
      "Algorithm incompatible with key type", "Invalid signature",
      "Receipt ID mismatch" }

ErrorVariants == { "InvalidFormat", "JsonError", "CryptographicError", "UnsupportedKey" }

C15_VerdictOrSystemError ==
    Done =>
        /\ \/ /\ outcome.kind = "Ok"
              /\ outcome.err = [variant |-> "", msg |-> ""]
              /\ (~outcome.verdict.ok =>
                      \E reason \in VerdictReasons : outcome.verdict.reason = <<reason>>)
           \/ /\ outcome.kind = "Err"
              /\ outcome.verdict = [ok |-> FALSE, reason |-> <<>>]
              /\ outcome.err.variant \in ErrorVariants
        /\ (StructureOk(receipt) /\ ~HeaderOf(receipt).ok) =>
               /\ outcome.kind = "Err"
               /\ outcome.err.variant = "InvalidFormat"
               /\ outcome.verdict = [ok |-> FALSE, reason |-> <<>>]

\* a header that is JSON but whose alg is a number
C15_Witness ==
    /\ Done
    /\ receipt.protected = B64Encode(HeaderJsonNumAlg(Kid1))
    /\ outcome.kind = "Err"

-----------------------------------------------------------------------------
(* C18.  Every call ends with a verdict or a system error; it runs each step *)
(* of the pipeline at most once, in the order of the pipeline, and the key   *)
(* lookup examines each key of the key set at most once.                     *)

PipelineOrder ==
    << "start", "decode_header", "validate_alg", "validate_kid", "find_key",
       "jcs_hash", "signing_input", "decode_signature", "verify_signature",
       "check_valid", "receipt_id" >>

\* the steps run so far are the first steps of the pipeline, each once
StepsOnceInOrder ==
    /\ Len(steps) <= Len(PipelineOrder)
    /\ \A i \in 1..Len(steps) : steps[i] = PipelineOrder[i]

\* the lookup examined the keys 1, 2, ... of the key set, none twice
KeysVisitedOnce ==
    LET visits == FindVisits(receipt.kid, jwks, 1)
    IN  /\ Len(visits) <= Len(jwks)
        /\ \A i \in 1..Len(visits) : visits[i] = i

C18_TerminatesEachStepOnce ==
    /\ [](StepsOnceInOrder /\ (InSteps("find_key") => KeysVisitedOnce))
    /\ <>(Done /\ outcome.kind \in {"Ok", "Err"})

\* a call that ran the whole pipeline, over a key set of two keys
C18_Witness ==
    /\ Done
    /\ Len(steps) = 11
    /\ Len(jwks) = 2

-----------------------------------------------------------------------------
(* C14 *)

\* the receipt verified now is the receipt verified before with the members of
\* its payload objects in another order, and nothing else changed
PayloadReordered ==
    /\ Done
    /\ prev.outcome.kind # "pending"
    /\ receipt.payload # prev.receipt.payload
    /\ SameJson(receipt.payload, prev.receipt.payload)
    /\ receipt = [prev.receipt EXCEPT !.payload = receipt.payload]

\* C14: two receipts that are identical except that their payloads are the same
\* JSON value with object members in a different order receive the same outcome
\* from verify_receipt against the same key set; if one is accepted so is the
\* other
C14_ReorderedPayloadSameOutcome ==
    PayloadReordered =>
        /\ outcome = prev.outcome
        /\ Accepted(prev.outcome) <=> Accepted(outcome)

C14_Witness ==
    /\ PayloadReordered
    /\ Accepted(prev.outcome)
    /\ Accepted(outcome)

-----------------------------------------------------------------------------
(* C16 *)

\* the adapter was called and has returned
AdapterReturned == adapter_calls # <<>> /\ pc \in {"check_valid", "done"}

AdapterFailedWith(variant) ==
    pc = "done" /\ SystemError(outcome) /\ outcome.err.variant = variant

AdapterGaveBoolean == pc = "check_valid" /\ outcome.kind = "pending"

\* the coordinates of the key the adapter reads
Coordinates(k) == IF k.variant = "Ec" THEN {k.x, k.y} ELSE {k.x}

\* a coordinate that is base64url of another number of bytes than 32
WrongCoordinateLength(k) ==
    \E c \in Coordinates(k) : B64Decode(c).ok /\ ByteLen(B64Decode(c).bytes) # 32

\* the coordinates are 32 bytes each and are not a public key
InvalidPoint(k) ==
    /\ \A c \in Coordinates(k) : B64Decode(c).ok /\ ByteLen(B64Decode(c).bytes) = 32
    /\ ~KeyUsable(k)

\* a coordinate that is not base64url or not 32 bytes
CoordinateFormatWrong(k) ==
    \E c \in Coordinates(k) : ~B64Decode(c).ok \/ ByteLen(B64Decode(c).bytes) # 32

\* C16 as stated: the adapter fails with CryptographicError exactly when a key
\* coordinate has the wrong length or the point is invalid, and every other
\* input produces a boolean
C16_CryptographicErrorIffMalformed ==
    AdapterReturned =>
        IF WrongCoordinateLength(Unwrap(key)) \/ InvalidPoint(Unwrap(key))
        THEN AdapterFailedWith("CryptographicError")
        ELSE AdapterGaveBoolean

\* C16: the adapter fails with CryptographicError exactly when the coordinates
\* are 32 bytes each and are not a public key; it fails with InvalidFormat when
\* a coordinate is not base64url or not 32 bytes, and, for a valid public key,
\* when the signature is not 64 bytes or does not parse; on every other input
\* it produces a boolean, true exactly for a valid signature of the message
C16_AdapterErrorCategories ==
    AdapterReturned =>
        LET k == Unwrap(key)
        IN  /\ AdapterFailedWith("CryptographicError") <=> InvalidPoint(k)
            /\ AdapterFailedWith("InvalidFormat") <=>
                  \/ CoordinateFormatWrong(k)
                  \/ /\ KeyUsable(k)
                     /\ \/ ByteLen(signature_bytes) # 64
                        \/ ~SignatureParses(signature_bytes)
            /\ \/ AdapterFailedWith("CryptographicError")
               \/ AdapterFailedWith("InvalidFormat")
               \/ /\ AdapterGaveBoolean
                  /\ is_valid <=> PrimitiveAccepts(header.alg, k, receipt)

\* an Ed25519 key of 2 bytes reached the adapter, which failed on its format
C16_Witness ==
    /\ AdapterReturned
    /\ Unwrap(key).variant = "Okp"
    /\ WrongCoordinateLength(Unwrap(key))
    /\ AdapterFailedWith("InvalidFormat")

-----------------------------------------------------------------------------
(* C19 *)

\* canonicalize_json has returned the bytes that went into the signing input
Canonicalized == InSteps("signing_input") /\ pc = "decode_signature"

\* the bytes canonicalize_json returned
CanonicalOutput == B64Decode(payload_b64u).bytes

\* the permutations of 1..n
MemberOrders(n) ==
    {f \in [1..n -> 1..n] : \A i, j \in 1..n : i # j => f[i] # f[j]}

\* the sequences that take their i-th element from the set choices[i]
Choices(choices) ==
    {g \in [1..Len(choices) -> UNION {choices[i] : i \in 1..Len(choices)}] :
        \A i \in 1..Len(choices) : g[i] \in choices[i]}

RECURSIVE Reorderings(_)
\* the values that differ from v only in the order of object members, at any
\* depth
Reorderings(v) ==
    IF v.t = "arr"
    THEN {JArr(g) : g \in Choices([i \in 1..Len(v.items) |-> Reorderings(v.items[i])])}
    ELSE IF v.t = "obj"
    THEN LET m == v.members
             n == Len(m)
         IN  {JObj([i \in 1..n |-> <<m[f[i]][1], g[f[i]]>>]) :
                 f \in MemberOrders(n),
                 g \in Choices([i \in 1..n |-> Reorderings(m[i][2])])}
    ELSE {v}

\* byte string a comes before byte string b in lexicographic order
KeyBefore(a, b) ==
    \E n \in 0..Len(a) :
        /\ n <= Len(b)
        /\ SubSeq(a, 1, n) = SubSeq(b, 1, n)
        /\ \/ n = Len(a) /\ n < Len(b)
           \/ n < Len(a) /\ n < Len(b) /\ a[n + 1] < b[n + 1]

\* the members of object v that are written, in ascending order of key
WrittenAscending(v) ==
    LET kept == {i \in 1..Len(v.members) : v.members[i][2] # JNull}
    IN  CHOOSE q \in [1..Cardinality(kept) -> kept] :
            \A i, j \in 1..Cardinality(kept) :
                i < j => KeyBefore(v.members[q[i]][1], v.members[q[j]][1])

\* '{' key ':' canonical value, ... '}' over the written members of object v
\* in ascending order of key
SortedObjectBytes(v) ==
    LET q == WrittenAscending(v)
    IN  <<123>>
        \o Join([i \in 1..Len(q) |->
                    JsonString(v.members[q[i]][1]) \o <<58>>
                        \o CanonicalizeJson(v.members[q[i]][2]).s], <<44>>)
        \o <<125>>

\* C19: canonicalize_json yields identical bytes for any two JSON values that
\* differ only in the order of object members, at every nesting depth, and the
\* members of every output object appear sorted lexicographically by key bytes
C19_KeyOrderIndependence ==
    Canonicalized =>
        /\ \A w \in Reorderings(receipt.payload) :
               /\ CanonicalizeJson(w).ok
               /\ CanonicalizeJson(w).s = CanonicalOutput
        /\ receipt.payload.t = "obj" =>
               CanonicalOutput = SortedObjectBytes(receipt.payload)

\* {"b":{"d":2,"c":2},"a":1} and the like: two members out of order holding an
\* object whose members are out of order
C19_Witness ==
    /\ Canonicalized
    /\ receipt.payload.t = "obj"
    /\ Len(receipt.payload.members) = 2
    /\ KeyBefore(receipt.payload.members[2][1], receipt.payload.members[1][1])
    /\ \E i \in 1..2 :
           LET inner == receipt.payload.members[i][2]
           IN  /\ inner.t = "obj"
               /\ Len(inner.members) = 2
               /\ inner.members[1][2] # JNull
               /\ inner.members[2][2] # JNull
               /\ KeyBefore(inner.members[2][1], inner.members[1][1])
    /\ Cardinality(Reorderings(receipt.payload)) = 4

-----------------------------------------------------------------------------
(* C20 *)

RECURSIVE WithoutNulls(_)
\* v with the null-valued members of its objects removed, at any depth
WithoutNulls(v) ==
    IF v.t = "arr"
    THEN JArr([i \in 1..Len(v.items) |-> WithoutNulls(v.items[i])])
    ELSE IF v.t = "obj"
    THEN JObj(SelectSeq([i \in 1..Len(v.members) |->
                            <<v.members[i][1], WithoutNulls(v.members[i][2])>>],
                        LAMBDA mem : mem[2] # JNull))
    ELSE v

\* object v with one more member, "z", whose value is null
WithNull(v) == JObj(Append(v.members, <<<<122>>, JNull>>))

\* C20: canonicalize_json of an object omits every member whose value is null,
\* so adding or removing null-valued members of an object does not change the
\* output, and an empty or fully-null object canonicalizes to {}
C20_NullOmission ==
    (Canonicalized /\ receipt.payload.t = "obj") =>
        /\ \A i \in 1..Len(receipt.payload.members) :
               LET mem == receipt.payload.members[i]
                   others == SelectSeq(receipt.payload.members,
                                       LAMBDA o : o[1] # mem[1])
               IN  mem[2] = JNull =>
                       CanonicalizeJson(JObj(others)).s = CanonicalOutput
        /\ CanonicalizeJson(WithoutNulls(receipt.payload)).s = CanonicalOutput
        /\ CanonicalizeJson(WithNull(receipt.payload)).s = CanonicalOutput
        /\ (\A i \in 1..Len(receipt.payload.members) :
                receipt.payload.members[i][2] = JNull)
               => CanonicalOutput = <<123, 125>>

\* a fully-null object of two members gave {}
C20_Witness ==
    /\ Canonicalized
    /\ receipt.payload.t = "obj"
    /\ Len(receipt.payload.members) = 2
    /\ \A i \in 1..2 : receipt.payload.members[i][2] = JNull
    /\ CanonicalOutput = <<123, 125>>

-----------------------------------------------------------------------------
(* C17 *)

\* the two calls run together
Together == other.phase = "together"

\* the call that is running has returned; the call that is not running has
\* returned
RunningReturned == Together /\ pc = "done"
WaitingReturned == Together /\ other.regs.pc = "done"

\* C17: verify_receipt (and with it canonicalize_json, find_key_in_jwks and
\* jwk_thumbprint, which it calls) holds no shared mutable state and never
\* modifies the receipt or the key set: under any interleaving of two
\* concurrent calls each call returns the outcome it returned when run alone
\* on its inputs, and the inputs are unchanged
C17_InterleavedCallsAsAlone ==
    other.phase \in {"alone", "together"} =>
        /\ jwks = other.keys
        /\ receipt = other.given[other.turn]
        /\ Together => other.regs.receipt = other.given[3 - other.turn]
        /\ RunningReturned => outcome = other.solo[other.turn]
        /\ WaitingReturned => other.regs.outcome = other.solo[3 - other.turn]

\* two calls that were preempted in mid-course have returned, one accepting
\* its receipt and the other rejecting another receipt
C17_Witness ==
    /\ RunningReturned
    /\ WaitingReturned
    /\ other.mixed
    /\ receipt # other.regs.receipt
    /\ Accepted(outcome)
    /\ RejectedVerdict(other.regs.outcome)
    /\ Len(jwks) = 2

-----------------------------------------------------------------------------
(* C21 *)

\* the value parsed from the output of canonicalize_json is the payload now
Reparsed == other.phase = "reparsed"

\* the bytes of the first canonicalization
FirstOutput == B64Decode(other.regs.payload_b64u).bytes

\* C21: canonicalization is idempotent: parsing the bytes canonicalize_json(v)
\* back into a JSON value and canonicalizing that value yields exactly
\* canonicalize_json(v)
C21_Idempotent ==
    Reparsed =>
        /\ pc # "done"
        /\ Canonicalized => CanonicalOutput = FirstOutput

\* an object with a null member and an f64 was canonicalized, read back as
\* another value, and canonicalized again
C21_Witness ==
    /\ Reparsed
    /\ Canonicalized
    /\ LET v == other.regs.receipt.payload
       IN  /\ v.t = "obj"
           /\ \E i, j \in 1..Len(v.members) :
                  v.members[i][2] = JNull /\ v.members[j][2] = JFloat(FALSE, 1, 0)
           /\ receipt.payload # v

-----------------------------------------------------------------------------
(* C22 *)

\* C22: canonicalize_json of an array canonicalizes each element in original
\* order and keeps every element, null elements included; the elements are
\* joined with commas inside brackets, the empty array renders as [] and a
\* top-level null as null
C22_ArrayKeepsOrderAndNulls ==
    Canonicalized =>
        /\ receipt.payload = JNull => CanonicalOutput = <<110, 117, 108, 108>>
        /\ receipt.payload.t = "arr" =>
              LET a == receipt.payload.items
                  part(i) == IF a[i] = JNull THEN <<110, 117, 108, 108>>
                             ELSE CanonicalizeJson(a[i]).s
                  back == ParseJson(CanonicalOutput)
              IN  /\ CanonicalOutput =
                         <<91>> \o Join([i \in 1..Len(a) |-> part(i)], <<44>>) \o <<93>>
                  /\ Len(a) = 0 => CanonicalOutput = <<91, 93>>
                  /\ back.ok /\ back.v.t = "arr" /\ Len(back.v.items) = Len(a)

\* [null,3] was rendered as [null,3]
C22_Witness ==
    /\ Canonicalized
    /\ receipt.payload = JArr(<<JNull, JInt(3)>>)
    /\ CanonicalOutput = <<91, 110, 117, 108, 108, 44, 51, 93>>

-----------------------------------------------------------------------------
(* C23 *)

\* the number has an integral value
Integral(v) ==
    /\ v.t = "num"
    /\ v.repr = "f64" => (v.digits = 0 \/ v.exp >= 0)

\* C23 as stated: every number with an integral value is rendered without
\* exponent and without a fractional part or trailing zero (a sign and digits
\* only), whether it is stored as a signed integer, an unsigned integer or a
\* floating-point value
C23_IntegralRendersPlain ==
    (Canonicalized /\ Integral(receipt.payload)) =>
        \A i \in 1..Len(CanonicalOutput) : CanonicalOutput[i] \in (48..57) \cup {45}

-----------------------------------------------------------------------------
(* C24 *)

\* jwk_thumbprint has returned
Thumbprinted == InSteps("thumbprint") /\ pc = "done"

\* EC on P-256 or OKP on Ed25519
Supported(k) ==
    \/ k.variant = "Ec" /\ k.crv = P256
    \/ k.variant = "Okp" /\ k.crv = Ed25519

\* key type, crv, x and, for EC, y
RequiredMembers(k) ==
    IF k.variant = "Ec" THEN <<"Ec", k.crv, k.x, k.y>> ELSE <<"Okp", k.crv, k.x>>

\* {"crv":crv,"kty":kty,"x":x} and for EC ,"y":y before the brace
RequiredJson(k) ==
    LET member(name, v) == <<34>> \o name \o <<34, 58>> \o JsonString(v)
    IN  <<123>> \o member(<<99, 114, 118>>, k.crv) \o <<44>>
        \o member(<<107, 116, 121>>,
                  IF k.variant = "Ec" THEN <<69, 67>> ELSE <<79, 75, 80>>) \o <<44>>
        \o member(<<120>>, k.x)
        \o (IF k.variant = "Ec" THEN <<44>> \o member(<<121>>, k.y) ELSE <<>>)
        \o <<125>>

\* C24: jwk_thumbprint is a function of exactly the required members: two
\* supported keys have the same thumbprint if they agree on key type, crv, x
\* and (for EC) y, whatever their kid, alg and kty-string fields are, and
\* different thumbprints if they differ in a required member; the hashed
\* mapping lists the members in the order crv, kty, x, y
C24_ThumbprintOfRequiredMembers ==
    (Thumbprinted /\ Supported(Unwrap(key))) =>
        /\ outcome.kind = "Ok"
        /\ outcome.thumbprint = B64Encode(Sha256(RequiredJson(Unwrap(key))))
        /\ \A k \in ThumbprintKeys :
               Supported(k) =>
                   /\ JwkThumbprint(k).ok
                   /\ (JwkThumbprint(k).s = outcome.thumbprint)
                          <=> (RequiredMembers(k) = RequiredMembers(Unwrap(key)))

\* the thumbprint of an EC P-256 key with kid, alg and a kty string that is
\* not "EC" was computed, and keys of the universe differ from it in y only
C24_Witness ==
    /\ Thumbprinted
    /\ outcome.kind = "Ok"
    /\ LET k == Unwrap(key)
       IN  /\ k.variant = "Ec"
           /\ k.kty = <<120>>
           /\ k.kid # None
           /\ k.alg # None
           /\ \E k2 \in ThumbprintKeys :
                  /\ k2.variant = "Ec"
                  /\ k2 = [k EXCEPT !.y = k2.y]
                  /\ k2.y # k.y
                  /\ JwkThumbprint(k2).s # outcome.thumbprint

-----------------------------------------------------------------------------
(* C25 *)

\* C25: jwk_thumbprint fails with UnsupportedKey for every EC key whose crv is
\* not P-256 and every OKP key whose crv is not Ed25519, and returns a
\* non-empty thumbprint string for every EC P-256 key and every OKP Ed25519 key
C25_UnsupportedKeyOrThumbprint ==
    Thumbprinted =>
        LET k == Unwrap(key)
        IN  /\ (k.variant = "Ec" /\ k.crv # P256) =>
                   (outcome.kind = "Err" /\ outcome.err.variant = "UnsupportedKey")
            /\ (k.variant = "Okp" /\ k.crv # Ed25519) =>
                   (outcome.kind = "Err" /\ outcome.err.variant = "UnsupportedKey")
            /\ (k.variant = "Ec" /\ k.crv = P256) =>
                   (outcome.kind = "Ok" /\ outcome.thumbprint # <<>>)
            /\ (k.variant = "Okp" /\ k.crv = Ed25519) =>
                   (outcome.kind = "Ok" /\ outcome.thumbprint # <<>>)

\* an EC key on curve Ed25519 was refused
C25_Witness ==
    /\ Thumbprinted
    /\ Unwrap(key).variant = "Ec"
    /\ Unwrap(key).crv = Ed25519
    /\ outcome.kind = "Err"
    /\ outcome.err.variant = "UnsupportedKey"

-----------------------------------------------------------------------------
(* What the properties of the cache say, stated on the slot and the clock.    *)

\* the slot holds an entry younger than the time-to-live
WithinTtl == cache # None /\ now - Unwrap(cache).cached_at < ttl

\* thread p, holding the read lock, reads the slot in this step
Reads(p) == calls[p].pc = "read" /\ calls'[p].pc # "read"

\* every call has returned
Quiescent == \A p \in DOMAIN calls : calls[p].pc \in {"idle", "done"}

-----------------------------------------------------------------------------
(* C26.  get_fresh returns the stored key set, and has_fresh_cache returns    *)
(* true, exactly when the slot holds an entry with now - cached_at < ttl,    *)
(* strictly; with an empty slot or an entry of age ttl or more, hence always *)
(* with a time-to-live of zero, get_fresh returns none and has_fresh_cache   *)
(* returns false.                                                            *)

C26_FreshExactlyWithinTtl ==
    [][\A p \in DOMAIN calls :
            Reads(p) =>
                LET r == calls'[p].ret
                IN  /\ calls[p].op = "get_fresh" =>
                           /\ calls'[p].pc = "done"
                           /\ IF WithinTtl
                              THEN r.kind = "Some" /\ r.v = Unwrap(cache).jwks
                              ELSE r.kind = "None"
                    /\ calls[p].op = "has_fresh_cache" =>
                           /\ calls'[p].pc = "done"
                           /\ r.kind = "Bool"
                           /\ r.v = WithinTtl]_vars

\* has_fresh_cache has answered false on an entry that set_from_object stored
\* and whose age is exactly the time-to-live
C26_Witness ==
    /\ ttl > 0
    /\ cache # None
    /\ lock.writers = {}
    /\ now - Unwrap(cache).cached_at = ttl
    /\ calls[1].op = "set_from_object"
    /\ calls[1].ret.kind = "Ok"
    /\ calls[2].op = "has_fresh_cache"
    /\ calls[2].ret.kind = "Bool"
    /\ calls[2].ret.v = FALSE

-----------------------------------------------------------------------------
(* C27.  Whatever the interleaving of writers and readers, a thread reading   *)
(* the slot finds it empty or finds the key set and the instant of one       *)
(* single write, the one completed last; no reader holds the lock while a    *)
(* writer does, and at most one writer holds it.                             *)

C27_ReadersSeeWholeEntries ==
    /\ Cardinality(lock.writers) <= 1
    /\ lock.writers # {} => lock.readers = {}
    /\ \A p \in DOMAIN calls :
           calls[p].pc \in {"read", "list"} /\ p \in lock.readers =>
               cache = IF log.written = None
                       THEN None
                       ELSE Some([jwks |-> Unwrap(log.written).jwks,
                                  cached_at |-> Unwrap(log.written).cached_at])

\* a reader holds the lock and is about to read the slot while a writer with
\* a validated key set waits for the lock
C27_Witness ==
    /\ calls[1].pc = "read"
    /\ 1 \in lock.readers
    /\ calls[2].pc = "write_lock"
    /\ calls[2].op = "set_from_object"

-----------------------------------------------------------------------------
(* C28.  When concurrent set_from_object and fetch_from_url calls have all    *)
(* returned and no clear_cache came after the last write, the slot holds the *)
(* key set whose validation happened last.                                   *)

C28_SlotHoldsLastValidated ==
    Quiescent /\ log.written # None /\ log.validated # None =>
        /\ cache # None
        /\ Unwrap(cache).jwks = Unwrap(log.validated).jwks

\* C28 as the code has it: validation comes before the write lock is taken, so
\* of two concurrent calls the one validated first may write last. When the
\* calls have returned and no clear_cache came after the last write, the slot
\* holds the key set and the instant of the write that took the write lock
\* last, and that key set has passed validation.
C28_SlotHoldsLastWritten ==
    Quiescent /\ log.written # None =>
        /\ cache = Some([jwks |-> Unwrap(log.written).jwks,
                         cached_at |-> Unwrap(log.written).cached_at])
        /\ ValidateJwks(Unwrap(cache).jwks).ok

\* two calls have validated and written different key sets, and the slot holds
\* the one written last, which is not the one validated last
C28_Witness ==
    /\ Quiescent
    /\ log.written # None
    /\ cache # None
    /\ calls[1].op = "set_from_object"
    /\ calls[2].op = "fetch_from_url"
    /\ calls[1].ret.kind = "Ok"
    /\ calls[2].ret.kind = "Ok"
    /\ Unwrap(cache).jwks = Unwrap(log.written).jwks
    /\ Unwrap(cache).jwks # Unwrap(log.validated).jwks

-----------------------------------------------------------------------------
(* C29.  fetch_from_url, finding an entry within its time-to-live, returns    *)
(* the stored key set and makes no request, whatever the URL and whichever   *)
(* operation stored the entry; it goes on to the request only when the slot  *)
(* is empty or the entry stale; and when the fetched key set has passed      *)
(* validation and is stored, the slot holds it with the instant taken under  *)
(* the write lock, which is not before the instant it replaces.              *)

C29_FetchServesFreshEntry ==
    [][\A p \in DOMAIN calls :
            calls[p].op = "fetch_from_url" =>
                /\ Reads(p) =>
                       IF WithinTtl
                       THEN /\ calls'[p].pc = "done"
                            /\ calls'[p].ret.kind = "Ok"
                            /\ calls'[p].ret.v = Unwrap(cache).jwks
                            /\ cache' = cache
                       ELSE calls'[p].pc = "send"
                /\ calls[p].pc # "send" /\ calls'[p].pc = "send" => ~WithinTtl
                /\ calls[p].pc = "stamp" /\ calls'[p].pc = "done" =>
                       /\ calls'[p].ret.kind = "Ok"
                       /\ cache' = Some([jwks |-> calls'[p].ret.v,
                                         cached_at |-> calls[p].at])
                       /\ calls[p].at <= now
                       /\ Unwrap(cache).cached_at <= calls[p].at]_vars

\* fetch_from_url, given the second URL, has returned a key set that no
\* response carries and that set_from_object has stored
C29_Witness ==
    /\ calls[1].op = "fetch_from_url"
    /\ calls[1].url = "u2"
    /\ calls[1].ret.kind = "Ok"
    /\ calls[1].ret.v = <<KeyEC1>>
    /\ log.written # None
    /\ Unwrap(log.written).op = "set_from_object"

-----------------------------------------------------------------------------
(* C30.  After set_from_object has succeeded with a key set S, as long as     *)
(* the entry is younger than the time-to-live and no other write or clear    *)
(* has happened, has_fresh_cache returns true and get_fresh returns S, the   *)
(* same keys in the same order.                                              *)

C30_SetThenFresh ==
    [][\A p \in DOMAIN calls :
            /\ Reads(p)
            /\ log.written # None
            /\ Unwrap(log.written).op = "set_from_object"
            /\ now - Unwrap(log.written).cached_at < ttl
            => LET r == calls'[p].ret
               IN  /\ calls[p].op = "has_fresh_cache" => r.kind = "Bool" /\ r.v = TRUE
                   /\ calls[p].op = "get_fresh" =>
                          r.kind = "Some" /\ r.v = Unwrap(log.written).jwks]_vars

\* get_fresh has returned the two keys set one tick earlier, in their order
C30_Witness ==
    /\ calls[1].op = "set_from_object"
    /\ calls[1].arg = <<KeyED1, KeyEC3>>
    /\ calls[1].ret.kind = "Ok"
    /\ calls[2].op = "get_fresh"
    /\ calls[2].ret.kind = "Some"
    /\ calls[2].ret.v = <<KeyED1, KeyEC3>>
    /\ log.written # None
    /\ Unwrap(log.written).cached_at < now

-----------------------------------------------------------------------------
(* C31.  A manager on which no write has succeeded, and a manager after       *)
(* clear_cache, has an empty slot: clear_cache leaves the slot empty, and    *)
(* until the next set_from_object or fetch_from_url has stored a key set     *)
(* has_fresh_cache returns false and get_fresh returns none.                 *)

C31_EmptyUntilNextWrite ==
    [][\A p \in DOMAIN calls :
            /\ calls[p].pc = "clear" /\ calls'[p].pc = "done" => cache' = None
            /\ Reads(p) /\ log.written = None =>
                   /\ cache = None
                   /\ calls[p].op = "has_fresh_cache" =>
                          calls'[p].ret.kind = "Bool" /\ calls'[p].ret.v = FALSE
                   /\ calls[p].op = "get_fresh" => calls'[p].ret.kind = "None"]_vars

\* clear_cache has emptied a slot in which set_from_object had stored an entry
\* that was still fresh
C31_Witness ==
    /\ ttl > now
    /\ calls[1].op = "set_from_object"
    /\ calls[1].ret.kind = "Ok"
    /\ calls[2].op = "clear_cache"
    /\ calls[2].ret.kind = "Ok"
    /\ cache = None
    /\ log.written = None

-----------------------------------------------------------------------------
(* C32.  Staleness is a comparison made when the slot is read: no step of     *)
(* get_fresh, has_fresh_cache or thumbprints changes the slot, the passing   *)
(* of time does not change it, and every change of the slot is a step of     *)
(* clear_cache or a storing step of set_from_object or of a fetch_from_url   *)
(* whose request and validation succeeded.                                   *)

C32_SlotChangesOnlyByWrites ==
    [][/\ \A p \in DOMAIN calls :
              /\ calls[p].op \in {"get_fresh", "has_fresh_cache", "thumbprints"}
              /\ calls'[p] # calls[p]
              => cache' = cache
       /\ now' # now => cache' = cache
       /\ cache' # cache =>
              \E p \in DOMAIN calls :
                  /\ calls'[p] # calls[p]
                  /\ \/ calls[p].op = "clear_cache" /\ calls[p].pc = "clear"
                     \/ /\ calls[p].op \in {"set_from_object", "fetch_from_url"}
                        /\ calls[p].pc \in {"store", "stamp"}
                        /\ ValidateJwks(calls[p].arg).ok]_vars

\* get_fresh has returned none on an entry whose time-to-live has elapsed, and
\* the entry is still in the slot
C32_Witness ==
    /\ calls[1].op = "set_from_object"
    /\ calls[1].ret.kind = "Ok"
    /\ calls[2].op = "get_fresh"
    /\ calls[2].ret.kind = "None"
    /\ cache # None
    /\ ttl > 0
    /\ ~WithinTtl

-----------------------------------------------------------------------------
(* What validation requires of a key set, stated on the keys.                 *)

\* an EC key on P-256 with x and y, or an OKP key on Ed25519 with x
KeyPasses(k) ==
    \/ k.variant = "Ec" /\ k.crv = P256 /\ k.x # <<>> /\ k.y # <<>>
    \/ k.variant = "Okp" /\ k.crv = Ed25519 /\ k.x # <<>>

\* at least one key, and every key passes
Passes(ks) == ks # <<>> /\ \A i \in 1..Len(ks) : KeyPasses(ks[i])

-----------------------------------------------------------------------------
(* C34.  set_from_object with an empty key set, or with a key set that holds  *)
(* an EC key off P-256, an OKP key off Ed25519, or a key with an empty x or, *)
(* for EC, an empty y, returns an error at validation, and no step of the    *)
(* call changes the slot: the entry and its instant, or the empty slot, are  *)
(* as they were.                                                             *)

C34_InvalidSetLeavesSlot ==
    [][\A p \in DOMAIN calls :
            /\ calls[p].op = "set_from_object"
            /\ calls[p].pc # "done"
            /\ calls'[p] # calls[p]
            /\ ~Passes(calls[p].arg)
            => /\ calls[p].pc = "validate"
               /\ calls'[p].pc = "done"
               /\ calls'[p].ret.kind = "Err"
               /\ cache' = cache]_vars

\* set_from_object has refused a key set whose EC key has no y, and the slot
\* holds the entry another set_from_object stored
C34_Witness ==
    /\ calls[1].op = "set_from_object"
    /\ calls[1].ret.kind = "Ok"
    /\ calls[2].op = "set_from_object"
    /\ calls[2].ret.kind = "Err"
    /\ Len(calls[2].arg) = 2
    /\ calls[2].arg[2].variant = "Ec"
    /\ calls[2].arg[2].y = <<>>
    /\ log.written # None
    /\ cache = Some([jwks |-> calls[1].arg,
                     cached_at |-> Unwrap(log.written).cached_at])

-----------------------------------------------------------------------------
(* C35.  In every state the slot is empty or holds a key set that passes      *)
(* validation: it has at least one key, every EC key is on P-256 with x and  *)
(* y, every OKP key is on Ed25519 with x.                                    *)

C35_SlotEmptyOrValidated == cache = None \/ Passes(Unwrap(cache).jwks)

\* a fetch_from_url is half way through storing the key set it fetched
C35_Witness ==
    /\ cache # None
    /\ \E p \in DOMAIN calls :
           /\ calls[p].op = "fetch_from_url"
           /\ calls[p].pc = "stamp"
           /\ Unwrap(cache).jwks = calls[p].arg

-----------------------------------------------------------------------------
(* C36.  A fetch_from_url whose request fails, whose response has a status    *)
(* other than success, whose body does not parse, or whose key set fails     *)
(* validation returns an error; no step of it from the request on to the     *)
(* failure changes the slot, and it does not return the stale entry.         *)

C36_FailedFetchLeavesSlot ==
    [][\A p \in DOMAIN calls :
            /\ calls[p].op = "fetch_from_url"
            /\ calls[p].pc \in {"send", "validate"}
            /\ calls'[p] # calls[p]
            => /\ cache' = cache
               /\ calls'[p].pc = "done" => calls'[p].ret.kind = "Err"
               /\ calls[p].pc = "validate" /\ ~Passes(calls[p].arg) =>
                      calls'[p].pc = "done"]_vars

\* a fetch_from_url has failed on a key set that does not pass validation,
\* while the slot holds a stale entry
C36_Witness ==
    /\ calls[1].op = "set_from_object"
    /\ calls[1].ret.kind = "Ok"
    /\ calls[2].op = "fetch_from_url"
    /\ calls[2].ret.kind = "Err"
    /\ Unwrap(calls[2].ret.err).variant = "InvalidFormat"
    /\ cache # None
    /\ Unwrap(cache).jwks = calls[1].arg
    /\ ~WithinTtl

-----------------------------------------------------------------------------
(* The thumbprints of the keys of a key set that support one, in the order   *)
(* of the key set.                                                           *)

SupportedThumbprints(ks) ==
    LET list[i \in 0..Len(ks)] ==
            IF i = 0 THEN <<>>
            ELSE IF Supported(ks[i])
                 THEN Append(list[i - 1], B64Encode(Sha256(RequiredJson(ks[i]))))
                 ELSE list[i - 1]
    IN  list[Len(ks)]

-----------------------------------------------------------------------------
(* C39.  thumbprints(None) works on whatever key set the slot holds, fresh    *)
(* or not: it fails with "No JWKS available" exactly when the slot is empty, *)
(* and otherwise returns the thumbprints of the stored key set, also after   *)
(* its time-to-live has elapsed.                                             *)

-----------------------------------------------------------------------------
(* C40.  thumbprints(Some(S)) returns the thumbprints of the keys of S that   *)
(* support one, in the order of S, one entry for each such key; it skips the *)
(* other keys and does not fail because of them.                             *)

C40_ThumbprintsSkipUnsupported ==
    \A p \in DOMAIN calls :
        calls[p].op = "thumbprints" /\ calls[p].arg # None /\ calls[p].pc = "done" =>
            LET S == Unwrap(calls[p].arg)
            IN  /\ calls[p].ret.kind = "Ok"
                /\ calls[p].ret.v = SupportedThumbprints(S)
                /\ Len(calls[p].ret.v) = Cardinality({i \in 1..Len(S) : Supported(S[i])})

\* thumbprints has returned two thumbprints for four keys, the second and the
\* fourth, in that order
C40_Witness ==
    \E p \in DOMAIN calls :
        /\ calls[p].op = "thumbprints"
        /\ calls[p].pc = "done"
        /\ calls[p].arg = Some(<<KeyEC384, KeyEC1, KeyED448, KeyED1>>)
        /\ calls[p].ret.kind = "Ok"
        /\ calls[p].ret.v = <<JwkThumbprint(KeyEC1).s, JwkThumbprint(KeyED1).s>>

-----------------------------------------------------------------------------
(* C33.  The only message passed to a signature adapter is the receipt's      *)
(* protected string as received, a dot, and the base64url text of the        *)
(* canonical payload, and it is passed at most once; the same base64url text *)
(* is the middle part of the string hashed for the receipt id.               *)

C33_AdapterMessage ==
    LET canonical == CanonicalizeJson(receipt.payload)
        message == receipt.protected \o <<46>> \o B64Encode(canonical.s)
    IN  /\ Len(adapter_calls) <= 1
        /\ \A i \in 1..Len(adapter_calls) :
               canonical.ok /\ adapter_calls[i] = message
        /\ InSteps("signing_input") /\ canonical.ok =>
               /\ payload_b64u = B64Encode(canonical.s)
               /\ signing_input = message
        /\ Done /\ InSteps("receipt_id") /\ IsSome(receipt.receipt_id) =>
               (Accepted(outcome) <=>
                    Unwrap(receipt.receipt_id)
                        = B64Encode(Sha256(message \o <<46>> \o receipt.signature)))

\* an adapter was called on a receipt whose protected string carries a member
\* that the decoded header does not keep, so that the message differs from
\* the one the issuer signed
C33_Witness ==
    /\ Len(adapter_calls) = 1
    /\ receipt.protected = B64Encode(HeaderJsonTyp(header.alg, header.kid))
    /\ receipt.protected # B64Encode(HeaderJson(header.alg, header.kid))
    /\ adapter_calls[1] # issued.msg

-----------------------------------------------------------------------------
(* C37.  Key resolution never fails: a key on an unsupported curve is passed *)
(* over for thumbprint matching and is resolved when its kid field is the    *)
(* requested kid.  The call then never ends with an UnsupportedKey error:    *)
(* once it reaches the signature step it ends, without calling an adapter,   *)
(* with the curve-requirement or the incompatibility verdict; before that    *)
(* step it can end only with the hash-mismatch verdict or a format error.    *)

UnsupportedResolved ==
    InSteps("find_key") /\ IsSome(key) /\ ~JwkThumbprint(Unwrap(key)).ok

KeyVerdict(o) ==
    \/ RejectedWith(o, "ES256 requires P-256 curve")
    \/ RejectedWith(o, "EdDSA requires Ed25519 curve")
    \/ RejectedWith(o, "Algorithm incompatible with key type")

C37_UnsupportedKeyNoSystemError ==
    /\ Done /\ steps # <<>> /\ steps[Len(steps)] = "find_key" =>
           RejectedWith(outcome, "Key not found in JWKS")
    /\ InSteps("find_key") =>
           \A i \in 1..Len(jwks) :
               /\ ~JwkThumbprint(jwks[i]).ok
               /\ jwks[i].kid = Some(receipt.kid)
               /\ \A j \in 1..(i - 1) : ~KeyMatches(jwks[j], receipt.kid)
               => key = Some(jwks[i])
    /\ UnsupportedResolved => Unwrap(key).kid = Some(receipt.kid)
    /\ UnsupportedResolved /\ Done =>
           /\ ~(SystemError(outcome) /\ outcome.err.variant = "UnsupportedKey")
           /\ adapter_calls = <<>>
           /\ IF InSteps("verify_signature")
              THEN KeyVerdict(outcome)
              ELSE \/ RejectedWith(outcome, "JCS hash mismatch")
                   \/ SystemError(outcome) /\ outcome.err.variant = "InvalidFormat"

\* a call that resolved a P-384 or Ed448 key by its kid field and ended with
\* the curve-requirement verdict
C37_Witness ==
    /\ Done /\ UnsupportedResolved
    /\ Unwrap(key).kid = Some(receipt.kid)
    /\ \/ RejectedWith(outcome, "ES256 requires P-256 curve")
       \/ RejectedWith(outcome, "EdDSA requires Ed25519 curve")

\* the statement without the condition that the signature step is reached
C37_UnsupportedKeyAlwaysVerdict ==
    UnsupportedResolved /\ Done => KeyVerdict(outcome)

-----------------------------------------------------------------------------
(* C38.  What verify_receipt returns does not depend on the alg field or the *)
(* kty string of any key of the key set: called again on the same receipt    *)
(* and a key set that differs in those fields only, it returns the same.     *)

C38_KeyLabelsIgnored ==
    Done /\ tampers > 0 /\ receipt = prev.receipt => outcome = prev.outcome

\* a receipt whose header says ES256 is accepted under a key that now says
\* EdDSA, as it was before the key was relabelled
C38_Witness ==
    /\ Done /\ tampers > 0 /\ receipt = prev.receipt
    /\ Accepted(prev.outcome) /\ Accepted(outcome)
    /\ header.alg = ES256
    /\ IsSome(key) /\ Unwrap(key).alg = Some(EdDSA)

=============================================================================
